---- MODULE Spec2Model ----
(***************************************************************************)
(* Model of the SDL GPU front end (src/gpu/SDL_gpu.c): the command-buffer  *)
(* header state machine driven by the public entry points, with the D3D12  *)
(* back end's single recycled command buffer, the debug-mode validation    *)
(* of SDL_GpuCreateTexture, and back-end selection at device creation ;   *)
(* of the D3D12 back end (src/gpu/d3d12/SDL_gpu_d3d12.c): claiming and     *)
(* unclaiming windows, acquiring swapchain textures, submitting and the    *)
(* fence wait, the uniform-buffer pool, render passes, graphics pipelines  *)
(* with their root signatures and root calls, and the acquisitions and    *)
(* releases of D3D12_CreateDevice ; and of the GPU renderer in             *)
(* src/gpu/SDL_gpu.c: its command queue (GPU_RunCommandQueue), the vertex  *)
(* upload, texture updates, the fence and command buffer of each frame     *)
(* (GPU_RenderPresent), render targets, samplers and shaders.              *)
(***************************************************************************)
EXTENDS Integers, Sequences, FiniteSets, TLC

VARIABLES
    debugMode,      \* SDL_GpuDevice.debugMode, fixed at device creation
    commandBuffer,  \* the handle the application holds (NULL before acquire)
    header,         \* CommandBufferCommonHeader of renderer->commandBuffer
    passHandles,    \* pass handles the application has been handed so far
    lastCall,       \* the last public call and what it did
    submitCount,    \* history: back-end Submit calls since the last acquire
    boundInPass,    \* history: pipeline bound inside the current pass
    texInfo,        \* SDL_GpuTextureCreateInfo handed to SDL_GpuCreateTexture
    texSupported,   \* answer of the back end's SupportsTextureFormat
    texResult       \* outcome of SDL_GpuCreateTexture

VARIABLES
    createProps,     \* what SDL_GpuCreateDevice was asked for, and the hint
    prepareDriver,   \* outcome of each back end's PrepareDriver probe
    selectedBackend, \* what SDL_GpuSelectBackend returned
    gpuDevice,       \* the SDL_GpuDevice returned (valid = FALSE for NULL)
    shaderCall       \* the last SDL_GpuCreateShader call and its outcome

cbVars == <<commandBuffer, header, passHandles, lastCall, submitCount, boundInPass>>
texVars == <<texInfo, texSupported, texResult>>
VARIABLES
    frontCalls,      \* history: public render-pass calls since the pass began
    backendCalls     \* history: back-end calls made since the pass began

VARIABLES
    windowProperties,   \* per window: its WINDOW_PROPERTY_DATA entry, if any
    d3d12CommandBuffer, \* nextWindow and fenceValue of renderer->commandBuffer
    d3dCall,            \* the last D3D12 back-end call and what it did
    signalled,          \* history: the values handed to ID3D12CommandQueue_Signal
    acquiredWindows,    \* history: windows acquired since the last D3D12_Submit
    d3dFault            \* a call has run into undefined behaviour

VARIABLES
    submitPc,        \* where the thread inside D3D12_Submit stands
    fenceToWaitFor,  \* D3D12_Submit's local of that name
    gpuQueue,        \* what the command queue still has to execute, in order
    completedValue,  \* ID3D12Fence_GetCompletedValue of the command buffer's fence
    fenceEvent,      \* the auto-reset event fenceEvent is set
    eventArmed,      \* the value SetEventOnCompletion waits for (0: none)
    submitLog        \* history of the D3D12_Submit calls

d3dVars == <<windowProperties, d3d12CommandBuffer, d3dCall, signalled,
             acquiredWindows, d3dFault>>
VARIABLES
    uniformBufferPool,   \* renderer->uniformBufferPool[0 .. uniformBufferPoolCount-1]
    uniformBuffers,      \* the command buffer's used, vertex and fragment uniform buffers
    uniformBuffersMade   \* history: D3D12_INTERNAL_CreateUniformBuffer calls so far

VARIABLES
    textureState,   \* the D3D12 resource state each texture is in, as recorded so far
    passCb,         \* colorAttachmentCount and colorAttachmentTexture of the command buffer
    passCall        \* the last D3D12 render-pass call : its inputs, what it recorded

VARIABLES
    pipelineCall,      \* the last graphics-pipeline call : its inputs, its outcome
    graphicsPipeline,  \* the D3D12GraphicsPipeline the application holds
    rootBinding        \* the command buffer's bound pipeline, need...Bind flags, root calls

VARIABLES
    renderQueue,   \* the SDL_RenderCommand list handed to GPU_RunCommandQueue
    renderRun      \* what GPU_RunCommandQueue returned and the draws it emitted

VARIABLES
    renderData,    \* the GPU_RenderData of the 2D renderer (renderer->internal)
    deviceState    \* what the GPU device holds for it : fences, buffers, passes

rendVars == <<renderData, deviceState>>
pipeVars == <<pipelineCall, graphicsPipeline, rootBinding>>
queueVars == <<renderQueue, renderRun>>
poolVars == <<uniformBufferPool, uniformBuffers, uniformBuffersMade>>
passVars == <<textureState, passCb, passCall>>
fenceVars == <<submitPc, fenceToWaitFor, gpuQueue, completedValue, fenceEvent,
               eventArmed, submitLog>>
extVars == <<fenceVars, poolVars, passVars, pipeVars, queueVars, rendVars>>
logVars == <<frontCalls, backendCalls>>
devVars == <<createProps, prepareDriver, selectedBackend, gpuDevice, shaderCall>>
vars == <<debugMode, commandBuffer, header, passHandles, lastCall, submitCount,
          boundInPass, texInfo, texSupported, texResult,
          createProps, prepareDriver, selectedBackend, gpuDevice, shaderCall,
          frontCalls, backendCalls,
          windowProperties, d3d12CommandBuffer, d3dCall, signalled,
          acquiredWindows, d3dFault,
          submitPc, fenceToWaitFor, gpuQueue, completedValue, fenceEvent,
          eventArmed, submitLog,
          uniformBufferPool, uniformBuffers, uniformBuffersMade,
          textureState, passCb, passCall,
          pipelineCall, graphicsPipeline, rootBinding,
          renderQueue, renderRun,
          renderData, deviceState>>

----------------------------------------------------------------------------
(* Bounds *)

\* the renderer's command queue holds 0 .. MaxCommands commands
MaxCommands == 3

\* frames presented by the 2D renderer
MaxFrames == 3

\* GPU_UpdateTexture calls that get a transfer buffer
MaxUpdates == 2

\* GPU_InitShaders calls
MaxInits == 3

\* commands in a frame's queue during the renderer's lifetime
MaxFrameCommands == 2

\* the sides of an updated rectangle are 1 .. MaxRect
MaxRect == 2

\* a render pass is begun with 0 .. MaxColorAttachments color attachments
MaxColorAttachments == 2

\* the uniform-buffer slots a pipeline uses per stage are 0 .. MaxUniformSlots
MaxUniformSlots == 2

\* the application's windows are 1 .. MaxWindows
MaxWindows == 2
\* cap on the number of D3D12_Submit calls
MaxD3DSubmits == 3
\* cap on the length of the call histories
MaxLog == 3
\* cap on the history counter of back-end submits between two acquisitions
MaxSubmits == 2
\* array-count arguments are drawn from 0 .. MaxCount
MaxCount == 1

(* Program constants *)

NULL == 0
\* the one command buffer object owned by the D3D12 renderer
RendererCommandBuffer == 1
\* the size of the renderer's vertex buffer and of its transfer buffer
VERTEX_BUFFER_SIZE == 1048576
MAX_COLOR_TARGET_BINDINGS == 4
MAX_COMPUTE_WRITE_TEXTURES == 8
MAX_COMPUTE_WRITE_BUFFERS == 8
MAX_2D_DIMENSION == 16384
MAX_3D_DIMENSION == 2048
SDL_GPU_SAMPLECOUNT_1 == 0
SWAPCHAIN_BUFFER_COUNT == 2

MAX_UNIFORM_BUFFER_POOL_SIZE == 16
MAX_ROOT_SIGNATURE_PARAMETERS == 64

----------------------------------------------------------------------------
(* The driver registry *)

\* no string: a NULL name or an unset hint
NoName == ""

SDL_GPU_DRIVER_INVALID == "INVALID"

\* the compiled-in back ends, in registry order
backends == <<"Metal", "D3D12", "Vulkan", "D3D11">>

Backends == {backends[i] : i \in 1 .. Len(backends)}

ShaderFormats == {"SECRET", "SPIRV", "DXBC", "DXIL", "MSL", "METALLIB"}

\* the bootstrap record a back end publishes
Bootstrap(b) ==
    CASE b = "Metal" -> [Name |-> "Metal", backendflag |-> "METAL",
                         shaderFormats |-> {"MSL", "METALLIB"}]
      [] b = "D3D12" -> [Name |-> "D3D12", backendflag |-> "D3D12",
                         shaderFormats |-> {"DXBC"}]
      [] b = "Vulkan" -> [Name |-> "Vulkan", backendflag |-> "VULKAN",
                          shaderFormats |-> {"SPIRV"}]
      [] b = "D3D11" -> [Name |-> "D3D11", backendflag |-> "D3D11",
                         shaderFormats |-> {"DXBC"}]

\* SDL_GpuSelectBackend has not run
NotSelected == "none"

NoDevice == [valid |-> FALSE, backend |-> SDL_GPU_DRIVER_INVALID,
             shaderFormats |-> {}, debugMode |-> FALSE]

NoProps == [formatFlags |-> {}, debugMode |-> FALSE, name |-> NoName,
            hint |-> NoName, createOk |-> FALSE]

NoShaderCall == [format |-> "none", ret |-> "none"]

\* no device has been asked for
DevIdle ==
    /\ createProps = NoProps
    /\ prepareDriver = [b \in Backends |-> FALSE]
    /\ selectedBackend = NotSelected
    /\ gpuDevice = NoDevice
    /\ shaderCall = NoShaderCall

----------------------------------------------------------------------------
(* D3D12 window data *)

Windows == 1 .. MaxWindows

SwapchainCompositions == {"SDR", "SDR_LINEAR", "HDR", "HDR_ADVANCED"}

ColorSpaces == {"RGB_FULL_G22_NONE_P709", "RGB_FULL_G10_NONE_P709",
                "RGB_FULL_G2084_NONE_P2020"}

SwapchainCompositionToColorSpace(composition) ==
    CASE composition = "SDR" -> "RGB_FULL_G22_NONE_P709"
      [] composition = "SDR_LINEAR" -> "RGB_FULL_G22_NONE_P709"
      [] composition = "HDR" -> "RGB_FULL_G10_NONE_P709"
      [] composition = "HDR_ADVANCED" -> "RGB_FULL_G2084_NONE_P2020"

\* the DXGI_COLOR_SPACE_TYPE whose value is 0: what a zeroed field holds
ZeroColorSpace == "RGB_FULL_G22_NONE_P709"

\* a D3D12WindowData after SDL_zerop, not (yet) stored on the window;
\* backBufferIndex is the state of its swapchain object
ZeroWindowData ==
    [hasData |-> FALSE, swapchainComposition |-> "SDR",
     swapchainColorSpace |-> ZeroColorSpace, frameCounter |-> 0,
     backBufferIndex |-> 0, nextWindow |-> NULL, activeWindow |-> FALSE]

NoD3DCall ==
    [op |-> "none", window |-> NULL, hadData |-> FALSE, ret |-> "void",
     composition |-> "SDR",
     supported |-> {}, failAt |-> "none", unreleased |-> 0,
     texture |-> <<NULL, 0>>, width |-> 0, height |-> 0,
     presents |-> [w \in Windows |-> 0], presentOk |-> [w \in Windows |-> TRUE],
     acquired |-> {}, closeOk |-> TRUE, signalOk |-> TRUE]

\* D3D12_CreateDevice: a zeroed command buffer whose fenceValue is set to 1
NewD3D12CommandBuffer == [nextWindow |-> NULL, fenceValue |-> 1]

\* the D3D12 renderer right after D3D12_CreateDevice, no window claimed
D3DIdle ==
    /\ windowProperties = [w \in Windows |-> ZeroWindowData]
    /\ d3d12CommandBuffer = NewD3D12CommandBuffer
    /\ d3dCall = NoD3DCall
    /\ signalled = <<>>
    /\ acquiredWindows = {}
    /\ d3dFault = FALSE

\* no call has been logged
LogIdle ==
    /\ frontCalls = <<>>
    /\ backendCalls = <<>>

NoSubmitLog ==
    [calls |-> 0, returns |-> 0, closeOk |-> TRUE, signalOk |-> TRUE,
     waited |-> FALSE, resetWhileExecuting |-> FALSE]

\* D3D12_CreateDevice: the fence is created with the value 0, the event
\* unset, the command queue empty, and no thread is inside D3D12_Submit
FenceIdle ==
    /\ submitPc = "idle"
    /\ fenceToWaitFor = 0
    /\ gpuQueue = <<>>
    /\ completedValue = 0
    /\ fenceEvent = FALSE
    /\ eventArmed = 0
    /\ submitLog = NoSubmitLog

\* the zeroed renderer and command buffer: an empty pool, no uniform
\* buffer in use, every slot NULL
NoUniformBuffers ==
    [used |-> <<>>,
     vertex |-> [i \in 1 .. MaxUniformSlots |-> NULL],
     fragment |-> [i \in 1 .. MaxUniformSlots |-> NULL]]

PoolIdle ==
    /\ uniformBufferPool = <<>>
    /\ uniformBuffers = NoUniformBuffers
    /\ uniformBuffersMade = 0

\* a texture that is no back buffer, created without a target usage
PlainTexture == <<NULL, 0>>

\* the textures handed to render passes: the first back buffer of two
\* windows, and the plain texture
PassTextures == {<<1, 0>>, <<2, 0>>, PlainTexture}

NoPassCb == [colorAttachmentCount |-> 0, colorAttachmentTexture |-> <<>>]

NoPassCall ==
    [op |-> "none", colors |-> <<>>, depth |-> <<>>, delegated |-> FALSE,
     commands |-> <<>>, actualBefore |-> <<>>]

\* swapchain buffers start out in D3D12_RESOURCE_STATE_PRESENT
PassIdle ==
    /\ textureState = [t \in PassTextures |-> "PRESENT"]
    /\ passCb = NoPassCb
    /\ passCall = NoPassCall

\* a shader that uses no resources, and the call record before any call
NoShader ==
    [samplerCount |-> 0, uniformBufferCount |-> 0, storageBufferCount |-> 0,
     storageTextureCount |-> 0]

NoPipelineCall == [op |-> "none"]

\* the NULL that D3D12_INTERNAL_CreateRootSignature returns
NullRootSignature == [valid |-> FALSE]

\* the NULL that D3D12_CreateGraphicsPipeline returns
NullGraphicsPipeline == [created |-> FALSE]

\* the command buffer's binding fields as SDL_zerop leaves them
NoRootBinding ==
    [currentGraphicsPipeline |-> NullGraphicsPipeline,
     needVertexSamplerBind |-> FALSE, needVertexResourceBind |-> FALSE,
     needVertexUniformBufferBind |-> FALSE,
     needFragmentSamplerBind |-> FALSE, needFragmentResourceBind |-> FALSE,
     needFragmentUniformBufferBind |-> FALSE,
     calls |-> <<>>]

PipeIdle ==
    /\ pipelineCall = NoPipelineCall
    /\ graphicsPipeline = NullGraphicsPipeline
    /\ rootBinding = NoRootBinding

NoRenderQueue == [cmd |-> <<>>, uploadOk |-> TRUE, texture |-> NULL]

NoRenderRun == [ran |-> FALSE, ret |-> 0, draws |-> <<>>]

QueueIdle ==
    /\ renderQueue = NoRenderQueue
    /\ renderRun = NoRenderRun

NoRenderData == [created |-> FALSE]

NoDeviceState == [fences |-> <<>>]

RendIdle ==
    /\ renderData = NoRenderData
    /\ deviceState = NoDeviceState

ExtIdle ==
    /\ FenceIdle
    /\ PoolIdle
    /\ PassIdle
    /\ PipeIdle
    /\ QueueIdle
    /\ RendIdle

----------------------------------------------------------------------------
(* The command-buffer header *)

FreshHeader ==
    [renderPass |-> [inProgress |-> FALSE],
     computePass |-> [inProgress |-> FALSE],
     copyPass |-> [inProgress |-> FALSE],
     graphicsPipelineBound |-> FALSE,
     computePipelineBound |-> FALSE,
     submitted |-> FALSE]

\* Each CHECK_ macro is TRUE when the macro takes its early return.
CHECK_COMMAND_BUFFER(h) == h.submitted

\* variant: the copy pass is left out of the test
CHECK_ANY_PASS_IN_PROGRESS_NoCopy(h) ==
    h.renderPass.inProgress \/ h.computePass.inProgress

CHECK_ANY_PASS_IN_PROGRESS(h) ==
    h.renderPass.inProgress \/ h.computePass.inProgress \/ h.copyPass.inProgress

CHECK_RENDERPASS(h) == ~h.renderPass.inProgress

CHECK_GRAPHICS_PIPELINE_BOUND(h) == ~h.graphicsPipelineBound

CHECK_COMPUTEPASS(h) == ~h.computePass.inProgress

CHECK_COMPUTE_PIPELINE_BOUND(h) == ~h.computePipelineBound

CHECK_COPYPASS(h) == ~h.copyPass.inProgress

\* Outcome of one front-end call: the header it leaves, whether it reached
\* the back end, what it returned, and the header the back end saw.
Reject(h, ret) ==
    [hdr |-> h, delegated |-> FALSE, ret |-> ret, atCall |-> h]

Delegate(hAtCall, hAfter, ret) ==
    [hdr |-> hAfter, delegated |-> TRUE, ret |-> ret, atCall |-> hAtCall]

----------------------------------------------------------------------------
(* Command buffer acquisition and submission *)

D3D12_AcquireCommandBuffer == RendererCommandBuffer

SDL_GpuAcquireCommandBuffer(h, deviceNull) ==
    IF deviceNull THEN Reject(h, "NULL")
    ELSE IF D3D12_AcquireCommandBuffer = NULL THEN Reject(h, "NULL")
    ELSE Delegate(h, FreshHeader, "commandBuffer")

\* variant: the already-submitted check is missing
SDL_GpuSubmit_NoSubmittedCheck(dbg, h, cb) ==
    IF cb = NULL THEN Reject(h, "void")
    ELSE IF dbg /\ (h.renderPass.inProgress \/ h.computePass.inProgress
                    \/ h.copyPass.inProgress) THEN Reject(h, "void")
    ELSE Delegate([h EXCEPT !.submitted = TRUE],
                  [h EXCEPT !.submitted = TRUE], "void")

SDL_GpuSubmit(dbg, h, cb) ==
    IF cb = NULL THEN Reject(h, "void")
    ELSE IF dbg /\ CHECK_COMMAND_BUFFER(h) THEN Reject(h, "void")
    ELSE IF dbg /\ (h.renderPass.inProgress \/ h.computePass.inProgress
                    \/ h.copyPass.inProgress) THEN Reject(h, "void")
    ELSE Delegate([h EXCEPT !.submitted = TRUE],
                  [h EXCEPT !.submitted = TRUE], "void")

\* variant: the flag is flipped instead of set
SDL_GpuSubmitAndAcquireFence_Toggle(dbg, h, cb) ==
    IF cb = NULL THEN Reject(h, "NULL")
    ELSE IF dbg /\ CHECK_COMMAND_BUFFER(h) THEN Reject(h, "NULL")
    ELSE IF dbg /\ (h.renderPass.inProgress \/ h.computePass.inProgress
                    \/ h.copyPass.inProgress) THEN Reject(h, "NULL")
    ELSE Delegate([h EXCEPT !.submitted = ~h.submitted],
                  [h EXCEPT !.submitted = ~h.submitted], "NULL")

\* D3D12_SubmitAndAcquireFence returns NULL
SDL_GpuSubmitAndAcquireFence(dbg, h, cb) ==
    IF cb = NULL THEN Reject(h, "NULL")
    ELSE IF dbg /\ CHECK_COMMAND_BUFFER(h) THEN Reject(h, "NULL")
    ELSE IF dbg /\ (h.renderPass.inProgress \/ h.computePass.inProgress
                    \/ h.copyPass.inProgress) THEN Reject(h, "NULL")
    ELSE Delegate([h EXCEPT !.submitted = TRUE],
                  [h EXCEPT !.submitted = TRUE], "NULL")

----------------------------------------------------------------------------
(* Calls that take the command buffer *)

SDL_GpuPushVertexUniformData(dbg, h, cb, dataNull) ==
    IF cb = NULL THEN Reject(h, "void")
    ELSE IF dataNull THEN Reject(h, "void")
    ELSE IF dbg /\ CHECK_COMMAND_BUFFER(h) THEN Reject(h, "void")
    ELSE Delegate(h, h, "void")

SDL_GpuPushFragmentUniformData(dbg, h, cb, dataNull) ==
    IF cb = NULL THEN Reject(h, "void")
    ELSE IF dataNull THEN Reject(h, "void")
    ELSE IF dbg /\ CHECK_COMMAND_BUFFER(h) THEN Reject(h, "void")
    ELSE Delegate(h, h, "void")

SDL_GpuPushComputeUniformData(dbg, h, cb, dataNull) ==
    IF cb = NULL THEN Reject(h, "void")
    ELSE IF dataNull THEN Reject(h, "void")
    ELSE IF dbg /\ CHECK_COMMAND_BUFFER(h) THEN Reject(h, "void")
    ELSE Delegate(h, h, "void")

SDL_GpuBeginRenderPass(dbg, h, cb, infosNull, colorAttachmentCount) ==
    IF cb = NULL THEN Reject(h, "NULL")
    ELSE IF infosNull /\ colorAttachmentCount > 0 THEN Reject(h, "NULL")
    ELSE IF colorAttachmentCount > MAX_COLOR_TARGET_BINDINGS THEN Reject(h, "NULL")
    ELSE IF dbg /\ CHECK_COMMAND_BUFFER(h) THEN Reject(h, "NULL")
    ELSE IF dbg /\ CHECK_ANY_PASS_IN_PROGRESS(h) THEN Reject(h, "NULL")
    ELSE Delegate(h, [h EXCEPT !.renderPass.inProgress = TRUE], "renderPass")

\* variant: the pass-in-progress check is missing
SDL_GpuBeginComputePass_NoPassCheck(dbg, h, cb, texturesNull, textureCount, buffersNull, bufferCount) ==
    IF cb = NULL THEN Reject(h, "NULL")
    ELSE IF texturesNull /\ textureCount > 0 THEN Reject(h, "NULL")
    ELSE IF buffersNull /\ bufferCount > 0 THEN Reject(h, "NULL")
    ELSE IF textureCount > MAX_COMPUTE_WRITE_TEXTURES THEN Reject(h, "NULL")
    ELSE IF bufferCount > MAX_COMPUTE_WRITE_BUFFERS THEN Reject(h, "NULL")
    ELSE IF dbg /\ CHECK_COMMAND_BUFFER(h) THEN Reject(h, "NULL")
    ELSE Delegate(h, [h EXCEPT !.computePass.inProgress = TRUE], "computePass")

SDL_GpuBeginComputePass(dbg, h, cb, texturesNull, textureCount, buffersNull, bufferCount) ==
    IF cb = NULL THEN Reject(h, "NULL")
    ELSE IF texturesNull /\ textureCount > 0 THEN Reject(h, "NULL")
    ELSE IF buffersNull /\ bufferCount > 0 THEN Reject(h, "NULL")
    ELSE IF textureCount > MAX_COMPUTE_WRITE_TEXTURES THEN Reject(h, "NULL")
    ELSE IF bufferCount > MAX_COMPUTE_WRITE_BUFFERS THEN Reject(h, "NULL")
    ELSE IF dbg /\ CHECK_COMMAND_BUFFER(h) THEN Reject(h, "NULL")
    ELSE IF dbg /\ CHECK_ANY_PASS_IN_PROGRESS(h) THEN Reject(h, "NULL")
    ELSE Delegate(h, [h EXCEPT !.computePass.inProgress = TRUE], "computePass")

SDL_GpuBeginCopyPass(dbg, h, cb) ==
    IF cb = NULL THEN Reject(h, "NULL")
    ELSE IF dbg /\ CHECK_COMMAND_BUFFER(h) THEN Reject(h, "NULL")
    ELSE IF dbg /\ CHECK_ANY_PASS_IN_PROGRESS(h) THEN Reject(h, "NULL")
    ELSE Delegate(h, [h EXCEPT !.copyPass.inProgress = TRUE], "copyPass")

SDL_GpuInsertDebugLabel(dbg, h, cb, textNull) ==
    IF cb = NULL THEN Reject(h, "void")
    ELSE IF textNull THEN Reject(h, "void")
    ELSE IF dbg /\ CHECK_COMMAND_BUFFER(h) THEN Reject(h, "void")
    ELSE Delegate(h, h, "void")

SDL_GpuPushDebugGroup(dbg, h, cb, nameNull) ==
    IF cb = NULL THEN Reject(h, "void")
    ELSE IF nameNull THEN Reject(h, "void")
    ELSE IF dbg /\ CHECK_COMMAND_BUFFER(h) THEN Reject(h, "void")
    ELSE Delegate(h, h, "void")

SDL_GpuPopDebugGroup(dbg, h, cb) ==
    IF cb = NULL THEN Reject(h, "void")
    ELSE IF dbg /\ CHECK_COMMAND_BUFFER(h) THEN Reject(h, "void")
    ELSE Delegate(h, h, "void")

\* Debug naming. A NULL text records an error but does not return: the call
\* goes on to the back end.
SDL_GpuSetBufferName(h, device, bufferNull, textNull) ==
    IF device = NULL THEN Reject(h, "void")
    ELSE IF bufferNull THEN Reject(h, "void")
    ELSE Delegate(h, h, "void")

SDL_GpuSetTextureName(h, device, textureNull, textNull) ==
    IF device = NULL THEN Reject(h, "void")
    ELSE IF textureNull THEN Reject(h, "void")
    ELSE Delegate(h, h, "void")

----------------------------------------------------------------------------
(* Render pass *)

\* No debug-mode check guards this call: it reaches the back end and sets
\* graphicsPipelineBound whatever the state of the command buffer.
SDL_GpuBindGraphicsPipeline(dbg, h, renderPass, pipelineNull) ==
    IF renderPass = NULL THEN Reject(h, "void")
    ELSE IF pipelineNull THEN Reject(h, "void")
    ELSE Delegate(h, [h EXCEPT !.graphicsPipelineBound = TRUE], "void")

SDL_GpuSetViewport(dbg, h, renderPass, viewportNull) ==
    IF renderPass = NULL THEN Reject(h, "void")
    ELSE IF viewportNull THEN Reject(h, "void")
    ELSE IF dbg /\ CHECK_RENDERPASS(h) THEN Reject(h, "void")
    ELSE Delegate(h, h, "void")

SDL_GpuSetScissor(dbg, h, renderPass, scissorNull) ==
    IF renderPass = NULL THEN Reject(h, "void")
    ELSE IF scissorNull THEN Reject(h, "void")
    ELSE IF dbg /\ CHECK_RENDERPASS(h) THEN Reject(h, "void")
    ELSE Delegate(h, h, "void")

SDL_GpuBindVertexBuffers(dbg, h, renderPass, bindingsNull, bindingCount) ==
    IF renderPass = NULL THEN Reject(h, "void")
    ELSE IF bindingsNull /\ bindingCount > 0 THEN Reject(h, "void")
    ELSE IF dbg /\ CHECK_RENDERPASS(h) THEN Reject(h, "void")
    ELSE Delegate(h, h, "void")

SDL_GpuBindIndexBuffer(dbg, h, renderPass, bindingNull) ==
    IF renderPass = NULL THEN Reject(h, "void")
    ELSE IF bindingNull THEN Reject(h, "void")
    ELSE IF dbg /\ CHECK_RENDERPASS(h) THEN Reject(h, "void")
    ELSE Delegate(h, h, "void")

SDL_GpuBindVertexSamplers(dbg, h, renderPass, bindingsNull, bindingCount) ==
    IF renderPass = NULL THEN Reject(h, "void")
    ELSE IF bindingsNull /\ bindingCount > 0 THEN Reject(h, "void")
    ELSE IF dbg /\ CHECK_RENDERPASS(h) THEN Reject(h, "void")
    ELSE Delegate(h, h, "void")

SDL_GpuBindVertexStorageTextures(dbg, h, renderPass, bindingsNull, bindingCount) ==
    IF renderPass = NULL THEN Reject(h, "void")
    ELSE IF bindingsNull /\ bindingCount > 0 THEN Reject(h, "void")
    ELSE IF dbg /\ CHECK_RENDERPASS(h) THEN Reject(h, "void")
    ELSE Delegate(h, h, "void")

SDL_GpuBindVertexStorageBuffers(dbg, h, renderPass, bindingsNull, bindingCount) ==
    IF renderPass = NULL THEN Reject(h, "void")
    ELSE IF bindingsNull /\ bindingCount > 0 THEN Reject(h, "void")
    ELSE IF dbg /\ CHECK_RENDERPASS(h) THEN Reject(h, "void")
    ELSE Delegate(h, h, "void")

\* variant: the render-pass check is missing
SDL_GpuBindFragmentSamplers_NoPassCheck(dbg, h, renderPass, bindingsNull, bindingCount) ==
    IF renderPass = NULL THEN Reject(h, "void")
    ELSE IF bindingsNull /\ bindingCount > 0 THEN Reject(h, "void")
    ELSE Delegate(h, h, "void")

SDL_GpuBindFragmentSamplers(dbg, h, renderPass, bindingsNull, bindingCount) ==
    IF renderPass = NULL THEN Reject(h, "void")
    ELSE IF bindingsNull /\ bindingCount > 0 THEN Reject(h, "void")
    ELSE IF dbg /\ CHECK_RENDERPASS(h) THEN Reject(h, "void")
    ELSE Delegate(h, h, "void")

SDL_GpuBindFragmentStorageTextures(dbg, h, renderPass, bindingsNull, bindingCount) ==
    IF renderPass = NULL THEN Reject(h, "void")
    ELSE IF bindingsNull /\ bindingCount > 0 THEN Reject(h, "void")
    ELSE IF dbg /\ CHECK_RENDERPASS(h) THEN Reject(h, "void")
    ELSE Delegate(h, h, "void")

SDL_GpuBindFragmentStorageBuffers(dbg, h, renderPass, bindingsNull, bindingCount) ==
    IF renderPass = NULL THEN Reject(h, "void")
    ELSE IF bindingsNull /\ bindingCount > 0 THEN Reject(h, "void")
    ELSE IF dbg /\ CHECK_RENDERPASS(h) THEN Reject(h, "void")
    ELSE Delegate(h, h, "void")

SDL_GpuDrawIndexedPrimitives(dbg, h, renderPass) ==
    IF renderPass = NULL THEN Reject(h, "void")
    ELSE IF dbg /\ CHECK_RENDERPASS(h) THEN Reject(h, "void")
    ELSE IF dbg /\ CHECK_GRAPHICS_PIPELINE_BOUND(h) THEN Reject(h, "void")
    ELSE Delegate(h, h, "void")

SDL_GpuDrawPrimitives(dbg, h, renderPass) ==
    IF renderPass = NULL THEN Reject(h, "void")
    ELSE IF dbg /\ CHECK_RENDERPASS(h) THEN Reject(h, "void")
    ELSE IF dbg /\ CHECK_GRAPHICS_PIPELINE_BOUND(h) THEN Reject(h, "void")
    ELSE Delegate(h, h, "void")

SDL_GpuDrawPrimitivesIndirect(dbg, h, renderPass, bufferNull) ==
    IF renderPass = NULL THEN Reject(h, "void")
    ELSE IF bufferNull THEN Reject(h, "void")
    ELSE IF dbg /\ CHECK_RENDERPASS(h) THEN Reject(h, "void")
    ELSE IF dbg /\ CHECK_GRAPHICS_PIPELINE_BOUND(h) THEN Reject(h, "void")
    ELSE Delegate(h, h, "void")

SDL_GpuDrawIndexedPrimitivesIndirect(dbg, h, renderPass, bufferNull) ==
    IF renderPass = NULL THEN Reject(h, "void")
    ELSE IF bufferNull THEN Reject(h, "void")
    ELSE IF dbg /\ CHECK_RENDERPASS(h) THEN Reject(h, "void")
    ELSE IF dbg /\ CHECK_GRAPHICS_PIPELINE_BOUND(h) THEN Reject(h, "void")
    ELSE Delegate(h, h, "void")

\* variant: the pipeline-bound flag survives the end of the pass
SDL_GpuEndRenderPass_KeepsPipeline(dbg, h, renderPass) ==
    IF renderPass = NULL THEN Reject(h, "void")
    ELSE IF dbg /\ CHECK_RENDERPASS(h) THEN Reject(h, "void")
    ELSE Delegate(h, [h EXCEPT !.renderPass.inProgress = FALSE], "void")

SDL_GpuEndRenderPass(dbg, h, renderPass) ==
    IF renderPass = NULL THEN Reject(h, "void")
    ELSE IF dbg /\ CHECK_RENDERPASS(h) THEN Reject(h, "void")
    ELSE Delegate(h, [h EXCEPT !.renderPass.inProgress = FALSE,
                               !.graphicsPipelineBound = FALSE], "void")

----------------------------------------------------------------------------
(* Compute pass *)

SDL_GpuBindComputePipeline(dbg, h, computePass, pipelineNull) ==
    IF computePass = NULL THEN Reject(h, "void")
    ELSE IF pipelineNull THEN Reject(h, "void")
    ELSE IF dbg /\ CHECK_COMPUTEPASS(h) THEN Reject(h, "void")
    ELSE Delegate(h, [h EXCEPT !.computePipelineBound = TRUE], "void")

SDL_GpuBindComputeStorageTextures(dbg, h, computePass, bindingsNull, bindingCount) ==
    IF computePass = NULL THEN Reject(h, "void")
    ELSE IF bindingsNull /\ bindingCount > 0 THEN Reject(h, "void")
    ELSE IF dbg /\ CHECK_COMPUTEPASS(h) THEN Reject(h, "void")
    ELSE Delegate(h, h, "void")

SDL_GpuBindComputeStorageBuffers(dbg, h, computePass, bindingsNull, bindingCount) ==
    IF computePass = NULL THEN Reject(h, "void")
    ELSE IF bindingsNull /\ bindingCount > 0 THEN Reject(h, "void")
    ELSE IF dbg /\ CHECK_COMPUTEPASS(h) THEN Reject(h, "void")
    ELSE Delegate(h, h, "void")

SDL_GpuDispatchCompute(dbg, h, computePass) ==
    IF computePass = NULL THEN Reject(h, "void")
    ELSE IF dbg /\ CHECK_COMPUTEPASS(h) THEN Reject(h, "void")
    ELSE IF dbg /\ CHECK_COMPUTE_PIPELINE_BOUND(h) THEN Reject(h, "void")
    ELSE Delegate(h, h, "void")

\* the buffer argument is passed to the back end without a NULL check
SDL_GpuDispatchComputeIndirect(dbg, h, computePass, bufferNull) ==
    IF computePass = NULL THEN Reject(h, "void")
    ELSE IF dbg /\ CHECK_COMPUTEPASS(h) THEN Reject(h, "void")
    ELSE IF dbg /\ CHECK_COMPUTE_PIPELINE_BOUND(h) THEN Reject(h, "void")
    ELSE Delegate(h, h, "void")

SDL_GpuEndComputePass(dbg, h, computePass) ==
    IF computePass = NULL THEN Reject(h, "void")
    ELSE IF dbg /\ CHECK_COMPUTEPASS(h) THEN Reject(h, "void")
    ELSE Delegate(h, [h EXCEPT !.computePass.inProgress = FALSE,
                               !.computePipelineBound = FALSE], "void")

----------------------------------------------------------------------------
(* Copy pass *)

SDL_GpuUploadToTexture(dbg, h, copyPass, sourceNull, destinationNull) ==
    IF copyPass = NULL THEN Reject(h, "void")
    ELSE IF sourceNull THEN Reject(h, "void")
    ELSE IF destinationNull THEN Reject(h, "void")
    ELSE IF dbg /\ CHECK_COPYPASS(h) THEN Reject(h, "void")
    ELSE Delegate(h, h, "void")

SDL_GpuUploadToBuffer(dbg, h, copyPass, sourceNull, destinationNull) ==
    IF copyPass = NULL THEN Reject(h, "void")
    ELSE IF sourceNull THEN Reject(h, "void")
    ELSE IF destinationNull THEN Reject(h, "void")
    ELSE Delegate(h, h, "void")

SDL_GpuCopyTextureToTexture(dbg, h, copyPass, sourceNull, destinationNull) ==
    IF copyPass = NULL THEN Reject(h, "void")
    ELSE IF sourceNull THEN Reject(h, "void")
    ELSE IF destinationNull THEN Reject(h, "void")
    ELSE Delegate(h, h, "void")

SDL_GpuCopyBufferToBuffer(dbg, h, copyPass, sourceNull, destinationNull) ==
    IF copyPass = NULL THEN Reject(h, "void")
    ELSE IF sourceNull THEN Reject(h, "void")
    ELSE IF destinationNull THEN Reject(h, "void")
    ELSE Delegate(h, h, "void")

SDL_GpuGenerateMipmaps(dbg, h, copyPass, textureNull) ==
    IF copyPass = NULL THEN Reject(h, "void")
    ELSE IF textureNull THEN Reject(h, "void")
    ELSE Delegate(h, h, "void")

SDL_GpuDownloadFromTexture(dbg, h, copyPass, sourceNull, destinationNull) ==
    IF copyPass = NULL THEN Reject(h, "void")
    ELSE IF sourceNull THEN Reject(h, "void")
    ELSE IF destinationNull THEN Reject(h, "void")
    ELSE Delegate(h, h, "void")

SDL_GpuDownloadFromBuffer(dbg, h, copyPass, sourceNull, destinationNull) ==
    IF copyPass = NULL THEN Reject(h, "void")
    ELSE IF sourceNull THEN Reject(h, "void")
    ELSE IF destinationNull THEN Reject(h, "void")
    ELSE Delegate(h, h, "void")

SDL_GpuEndCopyPass(dbg, h, copyPass) ==
    IF copyPass = NULL THEN Reject(h, "void")
    ELSE IF dbg /\ CHECK_COPYPASS(h) THEN Reject(h, "void")
    ELSE Delegate(h, [h EXCEPT !.copyPass.inProgress = FALSE], "void")

----------------------------------------------------------------------------
(* Texture creation *)

TextureTypes == {"2D", "2D_ARRAY", "3D", "CUBE"}

TextureFormats == {"R8G8B8A8", "R8_UINT"}

IsIntegerFormat(format) == format \in {"R8_UINT"}

\* the usage bits the validation looks at
UsageBits == {"SAMPLER", "GRAPHICS_STORAGE_READ", "DEPTH_STENCIL_TARGET"}

\* checks made for every texture type
CommonChecksFail(info) ==
    \/ info.width <= 0 \/ info.height <= 0 \/ info.depth <= 0
    \/ info.layerCount <= 0
    \/ info.levelCount <= 0
    \/ ("GRAPHICS_STORAGE_READ" \in info.usageFlags /\ "SAMPLER" \in info.usageFlags)
    \/ (IsIntegerFormat(info.format) /\ "SAMPLER" \in info.usageFlags)

\* variant: the square test is missing
CubeChecksFail_NoSquare(info, supported) ==
    \/ info.width > MAX_2D_DIMENSION \/ info.height > MAX_2D_DIMENSION
    \/ info.depth > 1
    \/ info.layerCount # 6
    \/ info.sampleCount > SDL_GPU_SAMPLECOUNT_1
    \/ ~supported

CubeChecksFail(info, supported) ==
    \/ info.width # info.height
    \/ info.width > MAX_2D_DIMENSION \/ info.height > MAX_2D_DIMENSION
    \/ info.depth > 1
    \/ info.layerCount # 6
    \/ info.sampleCount > SDL_GPU_SAMPLECOUNT_1
    \/ ~supported

Texture3DChecksFail(info, supported) ==
    \/ info.width > MAX_3D_DIMENSION \/ info.height > MAX_3D_DIMENSION
    \/ info.depth > MAX_3D_DIMENSION
    \/ "DEPTH_STENCIL_TARGET" \in info.usageFlags
    \/ info.layerCount > 1
    \/ info.sampleCount > SDL_GPU_SAMPLECOUNT_1
    \/ ~supported

\* 2D and 2D-array textures: no extent limit is checked on this branch
Texture2DChecksFail(info, supported) ==
    \/ IF info.type = "2D_ARRAY"
       THEN \/ "DEPTH_STENCIL_TARGET" \in info.usageFlags
            \/ info.sampleCount > SDL_GPU_SAMPLECOUNT_1
       ELSE info.sampleCount > SDL_GPU_SAMPLECOUNT_1 /\ info.levelCount > 1
    \/ ~supported

SDL_GpuCreateTexture(dbg, info, supported) ==
    IF dbg /\ ( \/ CommonChecksFail(info)
                \/ IF info.type = "CUBE" THEN CubeChecksFail(info, supported)
                   ELSE IF info.type = "3D" THEN Texture3DChecksFail(info, supported)
                   ELSE Texture2DChecksFail(info, supported) )
    THEN "NULL"
    ELSE "delegated"

----------------------------------------------------------------------------
(* Families of entry points, by the argument shape the application passes *)

SubmitFns == {"SDL_GpuSubmit", "SDL_GpuSubmitAndAcquireFence"}

BeginFns == {"SDL_GpuBeginRenderPass", "SDL_GpuBeginComputePass",
             "SDL_GpuBeginCopyPass"}

EndFns == {"SDL_GpuEndRenderPass", "SDL_GpuEndComputePass", "SDL_GpuEndCopyPass"}

PushUniformFns == {"SDL_GpuPushVertexUniformData",
                   "SDL_GpuPushFragmentUniformData",
                   "SDL_GpuPushComputeUniformData"}

DebugMarkerFns == {"SDL_GpuInsertDebugLabel", "SDL_GpuPushDebugGroup",
                   "SDL_GpuPopDebugGroup"}

GraphicsResourceBindFns ==
    {"SDL_GpuBindVertexSamplers", "SDL_GpuBindVertexStorageTextures",
     "SDL_GpuBindVertexStorageBuffers", "SDL_GpuBindFragmentSamplers",
     "SDL_GpuBindFragmentStorageTextures", "SDL_GpuBindFragmentStorageBuffers"}

RenderStateFns == {"SDL_GpuSetViewport", "SDL_GpuSetScissor",
                   "SDL_GpuBindVertexBuffers", "SDL_GpuBindIndexBuffer"}

DrawFns == {"SDL_GpuDrawIndexedPrimitives", "SDL_GpuDrawPrimitives",
            "SDL_GpuDrawPrimitivesIndirect",
            "SDL_GpuDrawIndexedPrimitivesIndirect"}

ComputeResourceBindFns == {"SDL_GpuBindComputeStorageTextures",
                           "SDL_GpuBindComputeStorageBuffers"}

DispatchFns == {"SDL_GpuDispatchCompute", "SDL_GpuDispatchComputeIndirect"}

CopyFns == {"SDL_GpuUploadToTexture", "SDL_GpuUploadToBuffer",
            "SDL_GpuCopyTextureToTexture", "SDL_GpuCopyBufferToBuffer",
            "SDL_GpuGenerateMipmaps", "SDL_GpuDownloadFromTexture",
            "SDL_GpuDownloadFromBuffer"}

RenderPassFns ==
    {"SDL_GpuBindGraphicsPipeline", "SDL_GpuEndRenderPass"}
        \cup RenderStateFns \cup GraphicsResourceBindFns \cup DrawFns

PipelineBindFns == {"SDL_GpuBindGraphicsPipeline", "SDL_GpuBindComputePipeline"}

\* dispatch of a call by name; p1Null, p2Null: NULL-ness of the pointer
\* arguments, n: the count that goes with an array argument
CommandBufferFn(fn, dbg, h, cb, p1Null) ==
    CASE fn = "SDL_GpuPushVertexUniformData" ->
            SDL_GpuPushVertexUniformData(dbg, h, cb, p1Null)
      [] fn = "SDL_GpuPushFragmentUniformData" ->
            SDL_GpuPushFragmentUniformData(dbg, h, cb, p1Null)
      [] fn = "SDL_GpuPushComputeUniformData" ->
            SDL_GpuPushComputeUniformData(dbg, h, cb, p1Null)
      [] fn = "SDL_GpuInsertDebugLabel" ->
            SDL_GpuInsertDebugLabel(dbg, h, cb, p1Null)
      [] fn = "SDL_GpuPushDebugGroup" ->
            SDL_GpuPushDebugGroup(dbg, h, cb, p1Null)
      [] fn = "SDL_GpuPopDebugGroup" ->
            SDL_GpuPopDebugGroup(dbg, h, cb)
      [] fn = "SDL_GpuBeginCopyPass" ->
            SDL_GpuBeginCopyPass(dbg, h, cb)
      [] fn = "SDL_GpuSubmit" ->
            SDL_GpuSubmit(dbg, h, cb)
      [] fn = "SDL_GpuSubmitAndAcquireFence" ->
            SDL_GpuSubmitAndAcquireFence(dbg, h, cb)

RenderPassFn(fn, dbg, h, pass, p1Null, n) ==
    CASE fn = "SDL_GpuBindGraphicsPipeline" ->
            SDL_GpuBindGraphicsPipeline(dbg, h, pass, p1Null)
      [] fn = "SDL_GpuSetViewport" -> SDL_GpuSetViewport(dbg, h, pass, p1Null)
      [] fn = "SDL_GpuSetScissor" -> SDL_GpuSetScissor(dbg, h, pass, p1Null)
      [] fn = "SDL_GpuBindVertexBuffers" ->
            SDL_GpuBindVertexBuffers(dbg, h, pass, p1Null, n)
      [] fn = "SDL_GpuBindIndexBuffer" ->
            SDL_GpuBindIndexBuffer(dbg, h, pass, p1Null)
      [] fn = "SDL_GpuBindVertexSamplers" ->
            SDL_GpuBindVertexSamplers(dbg, h, pass, p1Null, n)
      [] fn = "SDL_GpuBindVertexStorageTextures" ->
            SDL_GpuBindVertexStorageTextures(dbg, h, pass, p1Null, n)
      [] fn = "SDL_GpuBindVertexStorageBuffers" ->
            SDL_GpuBindVertexStorageBuffers(dbg, h, pass, p1Null, n)
      [] fn = "SDL_GpuBindFragmentSamplers" ->
            SDL_GpuBindFragmentSamplers(dbg, h, pass, p1Null, n)
      [] fn = "SDL_GpuBindFragmentStorageTextures" ->
            SDL_GpuBindFragmentStorageTextures(dbg, h, pass, p1Null, n)
      [] fn = "SDL_GpuBindFragmentStorageBuffers" ->
            SDL_GpuBindFragmentStorageBuffers(dbg, h, pass, p1Null, n)
      [] fn = "SDL_GpuDrawIndexedPrimitives" ->
            SDL_GpuDrawIndexedPrimitives(dbg, h, pass)
      [] fn = "SDL_GpuDrawPrimitives" -> SDL_GpuDrawPrimitives(dbg, h, pass)
      [] fn = "SDL_GpuDrawPrimitivesIndirect" ->
            SDL_GpuDrawPrimitivesIndirect(dbg, h, pass, p1Null)
      [] fn = "SDL_GpuDrawIndexedPrimitivesIndirect" ->
            SDL_GpuDrawIndexedPrimitivesIndirect(dbg, h, pass, p1Null)
      [] fn = "SDL_GpuEndRenderPass" -> SDL_GpuEndRenderPass(dbg, h, pass)

ComputePassFn(fn, dbg, h, pass, p1Null, n) ==
    CASE fn = "SDL_GpuBindComputePipeline" ->
            SDL_GpuBindComputePipeline(dbg, h, pass, p1Null)
      [] fn = "SDL_GpuBindComputeStorageTextures" ->
            SDL_GpuBindComputeStorageTextures(dbg, h, pass, p1Null, n)
      [] fn = "SDL_GpuBindComputeStorageBuffers" ->
            SDL_GpuBindComputeStorageBuffers(dbg, h, pass, p1Null, n)
      [] fn = "SDL_GpuDispatchCompute" -> SDL_GpuDispatchCompute(dbg, h, pass)
      [] fn = "SDL_GpuDispatchComputeIndirect" ->
            SDL_GpuDispatchComputeIndirect(dbg, h, pass, p1Null)
      [] fn = "SDL_GpuEndComputePass" -> SDL_GpuEndComputePass(dbg, h, pass)

CopyPassFn(fn, dbg, h, pass, p1Null, p2Null) ==
    CASE fn = "SDL_GpuUploadToTexture" ->
            SDL_GpuUploadToTexture(dbg, h, pass, p1Null, p2Null)
      [] fn = "SDL_GpuUploadToBuffer" ->
            SDL_GpuUploadToBuffer(dbg, h, pass, p1Null, p2Null)
      [] fn = "SDL_GpuCopyTextureToTexture" ->
            SDL_GpuCopyTextureToTexture(dbg, h, pass, p1Null, p2Null)
      [] fn = "SDL_GpuCopyBufferToBuffer" ->
            SDL_GpuCopyBufferToBuffer(dbg, h, pass, p1Null, p2Null)
      [] fn = "SDL_GpuGenerateMipmaps" ->
            SDL_GpuGenerateMipmaps(dbg, h, pass, p1Null)
      [] fn = "SDL_GpuDownloadFromTexture" ->
            SDL_GpuDownloadFromTexture(dbg, h, pass, p1Null, p2Null)
      [] fn = "SDL_GpuDownloadFromBuffer" ->
            SDL_GpuDownloadFromBuffer(dbg, h, pass, p1Null, p2Null)
      [] fn = "SDL_GpuEndCopyPass" -> SDL_GpuEndCopyPass(dbg, h, pass)

----------------------------------------------------------------------------
(* The application driving one device *)

NoCall == [op |-> "none", handleNull |-> FALSE, shape |-> "ok",
           delegated |-> FALSE, ret |-> "void", seenSubmitted |-> FALSE]

NoTexInfo == [type |-> "2D", format |-> "R8G8B8A8", width |-> 1, height |-> 1,
              depth |-> 1, layerCount |-> 1, levelCount |-> 1,
              sampleCount |-> 0, usageFlags |-> {}]

TexIdle ==
    /\ texInfo = NoTexInfo
    /\ texSupported = FALSE
    /\ texResult = "none"

\* SDL_GpuCreateDeviceWithProperties stores the debug flag; D3D12_CreateDevice
\* allocates the renderer's command buffer zeroed.
Init ==
    /\ debugMode \in BOOLEAN
    /\ commandBuffer = NULL
    /\ header = FreshHeader
    /\ passHandles = {}
    /\ lastCall = NoCall
    /\ submitCount = 0
    /\ boundInPass = [graphics |-> FALSE, compute |-> FALSE]
    /\ TexIdle
    /\ DevIdle
    /\ LogIdle
    /\ D3DIdle
    /\ ExtIdle

\* what the application can pass where a command buffer is expected
CommandBufferArgs == {NULL, commandBuffer}

\* what the application can pass where a pass handle is expected: NULL, or
\* the address of the pass record inside the command buffer it got from Begin
PassArgs(kind) ==
    {NULL} \cup (IF kind \in passHandles THEN {RendererCommandBuffer} ELSE {})

\* history of pipeline binds made while the matching pass is in progress
NextBoundInPass(op, r) ==
    IF ~r.delegated THEN boundInPass
    ELSE CASE op \in {"SDL_GpuAcquireCommandBuffer"} ->
                [graphics |-> FALSE, compute |-> FALSE]
           [] op \in {"SDL_GpuBeginRenderPass", "SDL_GpuEndRenderPass"} ->
                [boundInPass EXCEPT !.graphics = FALSE]
           [] op \in {"SDL_GpuBeginComputePass", "SDL_GpuEndComputePass"} ->
                [boundInPass EXCEPT !.compute = FALSE]
           [] op = "SDL_GpuBindGraphicsPipeline" ->
                [boundInPass EXCEPT !.graphics = r.atCall.renderPass.inProgress]
           [] op = "SDL_GpuBindComputePipeline" ->
                [boundInPass EXCEPT !.compute = r.atCall.computePass.inProgress]
           [] OTHER -> boundInPass

\* the shape of a call's remaining arguments: "null" when a required pointer
\* is NULL or an array is NULL with a count above 0, "empty" when an array is
\* NULL with count 0, "over" when a non-NULL array has more entries than the
\* call admits, "ok" otherwise
PointerShape(isNull) == IF isNull THEN "null" ELSE "ok"

ArrayShape(isNull, count) ==
    IF isNull /\ count > 0 THEN "null" ELSE IF isNull THEN "empty" ELSE "ok"

LimitedArrayShape(isNull, count, max) ==
    IF ~isNull /\ count > max THEN "over" ELSE ArrayShape(isNull, count)

BothShapes(s1, s2) ==
    IF "null" \in {s1, s2} THEN "null"
    ELSE IF "over" \in {s1, s2} THEN "over"
    ELSE IF "empty" \in {s1, s2} THEN "empty" ELSE "ok"

\* one public call: the header its code leaves behind and what it hands back
ApplyState(op, r) ==
    /\ header' = r.hdr
    /\ passHandles' = passHandles \cup
            (IF r.ret \in {"renderPass", "computePass", "copyPass"}
             THEN {r.ret} ELSE {})
    /\ commandBuffer' = IF r.ret = "commandBuffer" THEN D3D12_AcquireCommandBuffer
                        ELSE commandBuffer
    /\ submitCount' = IF op = "SDL_GpuAcquireCommandBuffer" /\ r.delegated THEN 0
                      ELSE IF op \in SubmitFns /\ r.delegated THEN submitCount + 1
                      ELSE submitCount
    /\ boundInPass' = NextBoundInPass(op, r)

\* one public call, and the record of it
Apply(op, handle, shape, r) ==
    /\ ApplyState(op, r)
    /\ lastCall' = [op |-> op, handleNull |-> (handle = NULL), shape |-> shape,
                    delegated |-> r.delegated, ret |-> r.ret,
                    seenSubmitted |-> r.delegated /\ r.atCall.submitted]

\* the application passes NULL or the device it created
DeviceArgs == {NULL, RendererCommandBuffer}

\* an array argument with its count: a non-NULL array of MaxCount entries,
\* or NULL with any count
ArrayArgs == {<<FALSE, MaxCount>>} \cup {<<TRUE, n>> : n \in 0 .. MaxCount}

\* the same, and a non-NULL array with more entries than the call admits
LimitedArrayArgs(max) == ArrayArgs \cup {<<FALSE, max + 1>>}

ArrayFns == GraphicsResourceBindFns \cup ComputeResourceBindFns
            \cup {"SDL_GpuBindVertexBuffers"}

\* calls with one more required pointer after the handle
PointerFns == PushUniformFns \cup PipelineBindFns
              \cup {"SDL_GpuInsertDebugLabel", "SDL_GpuPushDebugGroup",
                    "SDL_GpuSetViewport", "SDL_GpuSetScissor",
                    "SDL_GpuBindIndexBuffer", "SDL_GpuDrawPrimitivesIndirect",
                    "SDL_GpuDrawIndexedPrimitivesIndirect",
                    "SDL_GpuDispatchComputeIndirect", "SDL_GpuGenerateMipmaps"}

\* the remaining arguments <<NULL-ness, count>> of a call: a call with a NULL
\* handle returns before it looks at any of them
CallArgs(fn, handle) ==
    IF handle = NULL THEN {<<FALSE, 0>>}
    ELSE IF fn \in ArrayFns THEN ArrayArgs
    ELSE IF fn \in PointerFns THEN {<<FALSE, 0>>, <<TRUE, 0>>}
    ELSE {<<FALSE, 0>>}

CallShape(fn, a) ==
    IF fn \in ArrayFns THEN ArrayShape(a[1], a[2]) ELSE PointerShape(a[1])

\* source and destination NULL-ness of a copy-pass call
CopyArgs(fn, handle) ==
    IF handle = NULL \/ fn = "SDL_GpuEndCopyPass" THEN {<<FALSE, FALSE>>}
    ELSE IF fn \in PointerFns THEN {<<FALSE, FALSE>>, <<TRUE, FALSE>>}
    ELSE BOOLEAN \X BOOLEAN

\* the command-buffer calls leave the device and the texture request alone
DeviceUnchanged ==
    UNCHANGED <<debugMode, texInfo, texSupported, texResult, devVars, logVars,
                d3dVars, extVars>>

AcquireCommandBuffer ==
    /\ DeviceUnchanged
    /\ \E device \in DeviceArgs :
        Apply("SDL_GpuAcquireCommandBuffer", device, "ok",
              SDL_GpuAcquireCommandBuffer(header, device = NULL))

Submit ==
    /\ DeviceUnchanged
    /\ submitCount < MaxSubmits
    /\ \E fn \in SubmitFns, cb \in CommandBufferArgs :
        Apply(fn, cb, "ok", CommandBufferFn(fn, debugMode, header, cb, FALSE))

BeginRenderPass ==
    /\ DeviceUnchanged
    /\ \E cb \in CommandBufferArgs :
       \E infos \in IF cb = NULL THEN {<<FALSE, 0>>}
                    ELSE LimitedArrayArgs(MAX_COLOR_TARGET_BINDINGS) :
        Apply("SDL_GpuBeginRenderPass", cb,
              LimitedArrayShape(infos[1], infos[2], MAX_COLOR_TARGET_BINDINGS),
              SDL_GpuBeginRenderPass(debugMode, header, cb, infos[1], infos[2]))

BeginComputePass ==
    /\ DeviceUnchanged
    /\ \E cb \in CommandBufferArgs :
       \E textures \in IF cb = NULL THEN {<<FALSE, 0>>}
                       ELSE LimitedArrayArgs(MAX_COMPUTE_WRITE_TEXTURES),
          buffers \in IF cb = NULL THEN {<<FALSE, 0>>}
                      ELSE LimitedArrayArgs(MAX_COMPUTE_WRITE_BUFFERS) :
        Apply("SDL_GpuBeginComputePass", cb,
              BothShapes(LimitedArrayShape(textures[1], textures[2],
                                           MAX_COMPUTE_WRITE_TEXTURES),
                         LimitedArrayShape(buffers[1], buffers[2],
                                           MAX_COMPUTE_WRITE_BUFFERS)),
              SDL_GpuBeginComputePass(debugMode, header, cb, textures[1],
                                      textures[2], buffers[1], buffers[2]))

BeginCopyPass ==
    /\ DeviceUnchanged
    /\ \E cb \in CommandBufferArgs :
        Apply("SDL_GpuBeginCopyPass", cb, "ok",
              CommandBufferFn("SDL_GpuBeginCopyPass", debugMode, header, cb, FALSE))

CommandBufferCall ==
    /\ DeviceUnchanged
    /\ \E fn \in PushUniformFns \cup DebugMarkerFns, cb \in CommandBufferArgs :
       \E a \in CallArgs(fn, cb) :
        Apply(fn, cb, CallShape(fn, a),
              CommandBufferFn(fn, debugMode, header, cb, a[1]))

RenderPassCall ==
    /\ DeviceUnchanged
    /\ \E fn \in RenderPassFns, pass \in PassArgs("renderPass") :
       \E a \in CallArgs(fn, pass) :
        Apply(fn, pass, CallShape(fn, a),
              RenderPassFn(fn, debugMode, header, pass, a[1], a[2]))

ComputePassCall ==
    /\ DeviceUnchanged
    /\ \E fn \in {"SDL_GpuBindComputePipeline", "SDL_GpuEndComputePass"}
                 \cup ComputeResourceBindFns \cup DispatchFns,
          pass \in PassArgs("computePass") :
       \E a \in CallArgs(fn, pass) :
        Apply(fn, pass, CallShape(fn, a),
              ComputePassFn(fn, debugMode, header, pass, a[1], a[2]))

CopyPassCall ==
    /\ DeviceUnchanged
    /\ \E fn \in CopyFns \cup {"SDL_GpuEndCopyPass"}, pass \in PassArgs("copyPass") :
       \E a \in CopyArgs(fn, pass) :
        Apply(fn, pass, BothShapes(PointerShape(a[1]), PointerShape(a[2])),
              CopyPassFn(fn, debugMode, header, pass, a[1], a[2]))

DebugNameCall ==
    /\ DeviceUnchanged
    /\ \E device \in DeviceArgs :
       \E a \in IF device = NULL THEN {<<FALSE, FALSE>>} ELSE BOOLEAN \X BOOLEAN :
        \/ Apply("SDL_GpuSetBufferName", device,
                 BothShapes(PointerShape(a[1]), PointerShape(a[2])),
                 SDL_GpuSetBufferName(header, device, a[1], a[2]))
        \/ Apply("SDL_GpuSetTextureName", device,
                 BothShapes(PointerShape(a[1]), PointerShape(a[2])),
                 SDL_GpuSetTextureName(header, device, a[1], a[2]))

Next ==
    \/ AcquireCommandBuffer
    \/ Submit
    \/ BeginRenderPass
    \/ BeginComputePass
    \/ BeginCopyPass
    \/ CommandBufferCall
    \/ RenderPassCall
    \/ ComputePassCall
    \/ CopyPassCall
    \/ DebugNameCall

Spec == Init /\ [][Next]_vars

----------------------------------------------------------------------------
(* The calls of one render pass, with the back-end calls they make *)

\* the member of the device's function table that an entry point calls
VtableEntry(fn) ==
    CASE fn = "SDL_GpuBeginRenderPass" -> "BeginRenderPass"
      [] fn = "SDL_GpuBindGraphicsPipeline" -> "BindGraphicsPipeline"
      [] fn = "SDL_GpuSetViewport" -> "SetViewport"
      [] fn = "SDL_GpuSetScissor" -> "SetScissor"
      [] fn = "SDL_GpuBindVertexBuffers" -> "BindVertexBuffers"
      [] fn = "SDL_GpuBindIndexBuffer" -> "BindIndexBuffer"
      [] fn = "SDL_GpuBindVertexSamplers" -> "BindVertexSamplers"
      [] fn = "SDL_GpuBindVertexStorageTextures" -> "BindVertexStorageTextures"
      [] fn = "SDL_GpuBindVertexStorageBuffers" -> "BindVertexStorageBuffers"
      [] fn = "SDL_GpuBindFragmentSamplers" -> "BindFragmentSamplers"
      [] fn = "SDL_GpuBindFragmentStorageTextures" -> "BindFragmentStorageTextures"
      [] fn = "SDL_GpuBindFragmentStorageBuffers" -> "BindFragmentStorageBuffers"
      [] fn = "SDL_GpuDrawIndexedPrimitives" -> "DrawIndexedPrimitives"
      [] fn = "SDL_GpuDrawPrimitives" -> "DrawPrimitives"
      [] fn = "SDL_GpuDrawPrimitivesIndirect" -> "DrawPrimitivesIndirect"
      [] fn = "SDL_GpuDrawIndexedPrimitivesIndirect" -> "DrawIndexedPrimitivesIndirect"
      [] fn = "SDL_GpuEndRenderPass" -> "EndRenderPass"

\* a variant that records the back-end call ahead of the earlier ones
LogCall_Prepend(op, r) ==
    /\ ApplyState(op, r)
    /\ frontCalls' = Append(frontCalls, [fn |-> op, accepted |-> r.delegated])
    /\ backendCalls' = IF r.delegated THEN <<VtableEntry(op)>> \o backendCalls
                       ELSE backendCalls

\* one public call with its place in the histories: an entry point calls the
\* back end once, before it returns, unless a check made it return early
LogCall(op, r) ==
    /\ ApplyState(op, r)
    /\ frontCalls' = Append(frontCalls, [fn |-> op, accepted |-> r.delegated])
    /\ backendCalls' = IF r.delegated THEN Append(backendCalls, VtableEntry(op))
                       ELSE backendCalls

\* a command buffer has been acquired and a render pass begun on it
InitOrder ==
    /\ debugMode \in BOOLEAN
    /\ commandBuffer = RendererCommandBuffer
    /\ header = [FreshHeader EXCEPT !.renderPass.inProgress = TRUE]
    /\ passHandles = {"renderPass"}
    /\ lastCall = [op |-> "SDL_GpuBeginRenderPass", handleNull |-> FALSE,
                   shape |-> "empty", delegated |-> TRUE, ret |-> "renderPass",
                   seenSubmitted |-> FALSE]
    /\ submitCount = 0
    /\ boundInPass = [graphics |-> FALSE, compute |-> FALSE]
    /\ TexIdle
    /\ DevIdle
    /\ LogIdle
    /\ D3DIdle
    /\ ExtIdle

OrderUnchanged ==
    UNCHANGED <<debugMode, lastCall, texInfo, texSupported, texResult, devVars,
                d3dVars, extVars>>

LoggedBeginRenderPass ==
    /\ OrderUnchanged
    /\ Len(frontCalls) < MaxLog
    /\ \E cb \in CommandBufferArgs :
       \E infos \in IF cb = NULL THEN {<<FALSE, 0>>}
                    ELSE LimitedArrayArgs(MAX_COLOR_TARGET_BINDINGS) :
        LogCall("SDL_GpuBeginRenderPass",
                SDL_GpuBeginRenderPass(debugMode, header, cb, infos[1], infos[2]))

LoggedRenderPassCall ==
    /\ OrderUnchanged
    /\ Len(frontCalls) < MaxLog
    /\ \E fn \in RenderPassFns, pass \in PassArgs("renderPass") :
       \E a \in CallArgs(fn, pass) :
        LogCall(fn, RenderPassFn(fn, debugMode, header, pass, a[1], a[2]))

NextOrder == LoggedBeginRenderPass \/ LoggedRenderPassCall

SpecOrder == InitOrder /\ [][NextOrder]_vars

----------------------------------------------------------------------------
(* Texture creation on one device, over boundary-valued create-infos *)

ExtentValues == {0, 128, 256, MAX_3D_DIMENSION, MAX_3D_DIMENSION + 1,
                 MAX_2D_DIMENSION, MAX_2D_DIMENSION + 1}

DepthValues == {0, 1, 2, MAX_3D_DIMENSION + 1}

LayerCountValues == (0 .. MaxCount + 1) \cup {6}

LevelCountValues == 0 .. MaxCount + 1

SampleCountValues == {SDL_GPU_SAMPLECOUNT_1, SDL_GPU_SAMPLECOUNT_1 + 1}

TexInfos ==
    [type : TextureTypes, format : TextureFormats, width : ExtentValues,
     height : ExtentValues, depth : DepthValues, layerCount : LayerCountValues,
     levelCount : LevelCountValues, sampleCount : SampleCountValues,
     usageFlags : SUBSET UsageBits]

CbIdle ==
    /\ commandBuffer = NULL
    /\ header = FreshHeader
    /\ passHandles = {}
    /\ lastCall = NoCall
    /\ submitCount = 0
    /\ boundInPass = [graphics |-> FALSE, compute |-> FALSE]

InitTex ==
    /\ debugMode \in BOOLEAN
    /\ texInfo \in TexInfos
    /\ texSupported \in BOOLEAN
    /\ texResult = "none"
    /\ CbIdle
    /\ DevIdle
    /\ LogIdle
    /\ D3DIdle
    /\ ExtIdle

CreateTexture ==
    /\ texResult = "none"
    /\ texResult' = SDL_GpuCreateTexture(debugMode, texInfo, texSupported)
    /\ UNCHANGED <<debugMode, texInfo, texSupported>>
    /\ UNCHANGED <<cbVars, devVars, logVars, d3dVars, extVars>>

NextTex == CreateTexture

SpecTex == InitTex /\ [][NextTex]_vars

----------------------------------------------------------------------------
(* Device creation *)

\* SDL_strcasecmp on the names in play: 0 when equal up to letter case
CaseFold(name) ==
    CASE name \in {"Metal", "metal"} -> "metal"
      [] name \in {"Vulkan", "vulkan"} -> "vulkan"
      [] name \in {"D3D12", "d3d12"} -> "d3d12"
      [] name \in {"D3D11", "d3d11"} -> "d3d11"
      [] OTHER -> name

SDL_strcasecmp(a, b) == IF CaseFold(a) = CaseFold(b) THEN 0 ELSE 1

\* the first index of a non-empty set of registry indices
FirstIndex(is) == CHOOSE i \in is : \A j \in is : i <= j

\* With a name: the first back end of that name whose formats overlap the
\* request and whose probe succeeds.  Without one: the first back end whose
\* probe succeeds, its shader formats not being looked at.
SDL_GpuSelectBackend(gpudriver, formatFlags, probe) ==
    IF gpudriver # NoName
    THEN LET hits == {i \in 1 .. Len(backends) :
                        /\ SDL_strcasecmp(gpudriver, Bootstrap(backends[i]).Name) = 0
                        /\ Bootstrap(backends[i]).shaderFormats \cap formatFlags # {}
                        /\ probe[backends[i]]}
         IN IF hits = {} THEN SDL_GPU_DRIVER_INVALID
            ELSE Bootstrap(backends[FirstIndex(hits)]).backendflag
    ELSE LET hits == {i \in 1 .. Len(backends) : probe[backends[i]]}
         IN IF hits = {} THEN SDL_GPU_DRIVER_INVALID
            ELSE Bootstrap(backends[FirstIndex(hits)]).backendflag

\* the name SDL_GpuCreateDeviceWithProperties hands to the selection: the
\* hint when set, else the NAME property
RequestedDriver(props) == IF props.hint # NoName THEN props.hint ELSE props.name

\* the SDL_GpuDevice that SDL_GpuCreateDeviceWithProperties returns, the video
\* subsystem being initialised; createOk: the back end's CreateDevice works
SDL_GpuCreateDeviceWithProperties(props, probe) ==
    LET selected == SDL_GpuSelectBackend(RequestedDriver(props),
                                         props.formatFlags, probe)
        found == {i \in 1 .. Len(backends) :
                     Bootstrap(backends[i]).backendflag = selected}
    IN IF selected = SDL_GPU_DRIVER_INVALID \/ found = {} THEN NoDevice
       ELSE IF ~props.createOk THEN NoDevice
       ELSE [valid |-> TRUE,
             backend |-> Bootstrap(backends[FirstIndex(found)]).backendflag,
             shaderFormats |-> Bootstrap(backends[FirstIndex(found)]).shaderFormats,
             debugMode |-> props.debugMode]

SDL_GpuCreateShader(dev, infoNull, format) ==
    IF ~dev.valid THEN "NULL"
    ELSE IF infoNull THEN "NULL"
    ELSE IF dev.debugMode /\ format \notin dev.shaderFormats THEN "NULL"
    ELSE "delegated"

DriverNames == {NoName, "Vulkan", "vulkan", "metal", "D3D12", "D3D11", "opengl"}

DriverHints == {NoName, "vulkan", "D3D11"}

\* D3D12_PrepareDriver returns SDL_FALSE before it probes anything
ProbeOutcomes == {probe \in [Backends -> BOOLEAN] : ~probe["D3D12"]}

InitDev ==
    /\ debugMode \in BOOLEAN
    /\ TexIdle
    /\ CbIdle
    /\ LogIdle
    /\ D3DIdle
    /\ ExtIdle
    /\ createProps \in [formatFlags : SUBSET ShaderFormats, debugMode : BOOLEAN,
                         name : DriverNames, hint : DriverHints,
                         createOk : BOOLEAN]
    /\ prepareDriver \in ProbeOutcomes
    /\ selectedBackend = NotSelected
    /\ gpuDevice = NoDevice
    /\ shaderCall = NoShaderCall

CreateDevice ==
    /\ selectedBackend = NotSelected
    /\ selectedBackend' = SDL_GpuSelectBackend(RequestedDriver(createProps),
                                               createProps.formatFlags,
                                               prepareDriver)
    /\ gpuDevice' = SDL_GpuCreateDeviceWithProperties(createProps, prepareDriver)
    /\ UNCHANGED <<createProps, prepareDriver, shaderCall>>
    /\ UNCHANGED <<debugMode, cbVars, texVars, logVars, d3dVars, extVars>>

CreateShader ==
    /\ selectedBackend # NotSelected
    /\ shaderCall = NoShaderCall
    /\ \E format \in ShaderFormats, infoNull \in BOOLEAN :
        shaderCall' = [format |-> format,
                       ret |-> SDL_GpuCreateShader(gpuDevice, infoNull, format)]
    /\ UNCHANGED <<createProps, prepareDriver, selectedBackend, gpuDevice>>
    /\ UNCHANGED <<debugMode, cbVars, texVars, logVars, d3dVars, extVars>>

NextDev == CreateDevice \/ CreateShader

SpecDev == InitDev /\ [][NextDev]_vars

----------------------------------------------------------------------------
(* D3D12: claiming and unclaiming windows *)

\* where D3D12_INTERNAL_CreateSwapchain can be made to fail by the system
FailPoints == {"none", "IsWindow", "CreateSwapChainForHwnd", "QueryInterface",
               "InitializeSwapchainTexture"}

D3D12_INTERNAL_FetchWindowData(props, window) == props[window]

\* supported: the color spaces for which the new swapchain reports PRESENT.
\* The support query reads windowData->swapchainColorSpace before that field
\* is assigned, and its failure path returns without releasing swapchain3.
\* unreleased: swapchain objects created here and still alive at return.
D3D12_INTERNAL_CreateSwapchain(windowData, composition, supported, failAt) ==
    IF failAt \in {"IsWindow", "CreateSwapChainForHwnd", "QueryInterface"}
    THEN [ok |-> FALSE, windowData |-> windowData, unreleased |-> 0]
    ELSE IF windowData.swapchainColorSpace \notin supported
    THEN [ok |-> FALSE, windowData |-> windowData, unreleased |-> 1]
    ELSE LET initialized ==
                [windowData EXCEPT
                    !.swapchainComposition = composition,
                    !.swapchainColorSpace =
                        SwapchainCompositionToColorSpace(composition),
                    !.frameCounter = 0,
                    !.backBufferIndex = 0]
         IN IF failAt = "InitializeSwapchainTexture"
            THEN [ok |-> FALSE, windowData |-> initialized, unreleased |-> 0]
            ELSE [ok |-> TRUE, windowData |-> initialized, unreleased |-> 1]

D3D12_ClaimWindow(props, window, composition, supported, failAt) ==
    IF ~D3D12_INTERNAL_FetchWindowData(props, window).hasData
    THEN LET created == D3D12_INTERNAL_CreateSwapchain(
                            ZeroWindowData, composition, supported, failAt)
         IN IF created.ok
            THEN [props |-> [props EXCEPT ![window] =
                                [created.windowData EXCEPT !.hasData = TRUE]],
                  ret |-> "TRUE", unreleased |-> created.unreleased]
            ELSE [props |-> props, ret |-> "FALSE",
                  unreleased |-> created.unreleased]
    ELSE [props |-> props, ret |-> "FALSE", unreleased |-> 0]

\* a variant that destroys the window data but leaves the property in place
D3D12_UnclaimWindow_KeepsEntry(props, window) ==
    IF ~D3D12_INTERNAL_FetchWindowData(props, window).hasData
    THEN [props |-> props, fault |-> FALSE]
    ELSE [props |-> [props EXCEPT ![window] =
                        [ZeroWindowData EXCEPT !.hasData = TRUE]],
          fault |-> props[window].activeWindow]

\* D3D12_INTERNAL_DestroyWindowData, SDL_ClearProperty and SDL_free: the entry
\* is gone and the swapchain released.  SDL_assert(!activeWindow) guards
\* nothing once assertions are compiled out: fault tells that the window
\* data was freed while the command buffer's chain still leads to it.
D3D12_UnclaimWindow(props, window) ==
    IF ~D3D12_INTERNAL_FetchWindowData(props, window).hasData
    THEN [props |-> props, fault |-> FALSE]
    ELSE [props |-> [props EXCEPT ![window] = ZeroWindowData],
          fault |-> props[window].activeWindow]

NotD3DVars == <<debugMode, cbVars, texVars, devVars, logVars, extVars>>

ClaimWindowWith(compositions, supports, failPoints) ==
    \E window \in Windows, composition \in compositions,
       supported \in supports, failAt \in failPoints :
        LET r == D3D12_ClaimWindow(windowProperties, window, composition,
                                   supported, failAt)
        IN /\ windowProperties' = r.props
           /\ d3dCall' = [NoD3DCall EXCEPT
                            !.op = "D3D12_ClaimWindow", !.window = window,
                            !.hadData = windowProperties[window].hasData,
                            !.ret = r.ret, !.composition = composition,
                            !.supported = supported, !.failAt = failAt,
                            !.unreleased = r.unreleased]
           /\ UNCHANGED <<d3d12CommandBuffer, signalled, acquiredWindows, d3dFault>>
           /\ UNCHANGED NotD3DVars

\* what IDXGISwapChain3_CheckColorSpaceSupport may report as presentable:
\* every color space, every one but the default, or the default alone
ColorSpaceSupport ==
    {ColorSpaces, ColorSpaces \ {ZeroColorSpace}, {ZeroColorSpace}}

ClaimWindow ==
    /\ ~d3dFault
    /\ ClaimWindowWith(SwapchainCompositions, ColorSpaceSupport, FailPoints)

UnclaimWindow ==
    /\ ~d3dFault
    /\ \E window \in Windows :
        LET r == D3D12_UnclaimWindow(windowProperties, window)
        IN /\ windowProperties' = r.props
           /\ d3dFault' = r.fault
           /\ d3dCall' = [NoD3DCall EXCEPT
                            !.op = "D3D12_UnclaimWindow", !.window = window,
                            !.hadData = windowProperties[window].hasData]
           /\ UNCHANGED <<d3d12CommandBuffer, signalled, acquiredWindows>>
           /\ UNCHANGED NotD3DVars

InitD3D ==
    /\ debugMode = FALSE
    /\ CbIdle
    /\ TexIdle
    /\ DevIdle
    /\ LogIdle
    /\ D3DIdle
    /\ ExtIdle

NextClaim == ClaimWindow \/ UnclaimWindow

SpecClaim == InitD3D /\ [][NextClaim]_vars

----------------------------------------------------------------------------
(* D3D12: acquiring swapchain textures and submitting *)

\* the last window of the chain that starts at window
RECURSIVE ChainTail(_, _)
ChainTail(props, window) ==
    IF props[window].nextWindow = NULL THEN window
    ELSE ChainTail(props, props[window].nextWindow)

\* the back buffers a successful claim creates : one D3D12Texture per index,
\* all of the size of the window
RenderTexture(window, index) == <<window, index>>

TextureWidth(texture) == 640 * texture[1]

TextureHeight(texture) == 960 \div texture[1]

\* a variant that enlists the window whether or not it is on the chain
D3D12_AcquireSwapchainTexture_EnlistsAgain(props, cb, window) ==
    LET windowData == D3D12_INTERNAL_FetchWindowData(props, window)
        linked == IF cb.nextWindow = NULL THEN props
                  ELSE [props EXCEPT
                            ![ChainTail(props, cb.nextWindow)].nextWindow = window]
        enlisted == [linked EXCEPT ![window].nextWindow = NULL,
                                   ![window].activeWindow = TRUE]
        texture == RenderTexture(window, windowData.frameCounter)
    IN [props |-> enlisted,
        cb |-> IF cb.nextWindow = NULL
               THEN [cb EXCEPT !.nextWindow = window] ELSE cb,
        texture |-> texture,
        width |-> TextureWidth(texture), height |-> TextureHeight(texture)]

\* a variant that always hands out the first back buffer
D3D12_AcquireSwapchainTexture_FirstBuffer(props, cb, window) ==
    LET windowData == D3D12_INTERNAL_FetchWindowData(props, window)
        linked == IF cb.nextWindow = NULL THEN props
                  ELSE [props EXCEPT
                            ![ChainTail(props, cb.nextWindow)].nextWindow = window]
        enlisted == [linked EXCEPT ![window].nextWindow = NULL,
                                   ![window].activeWindow = TRUE]
        texture == RenderTexture(window, 0)
    IN [props |-> IF windowData.activeWindow THEN props ELSE enlisted,
        cb |-> IF ~windowData.activeWindow /\ cb.nextWindow = NULL
               THEN [cb EXCEPT !.nextWindow = window] ELSE cb,
        texture |-> texture,
        width |-> TextureWidth(texture), height |-> TextureHeight(texture)]

\* for a window that has window data: enlist it at the end of the command
\* buffer's chain unless it is on it, and return renderTexture[frameCounter]
D3D12_AcquireSwapchainTexture(props, cb, window) ==
    LET windowData == D3D12_INTERNAL_FetchWindowData(props, window)
        linked == IF cb.nextWindow = NULL THEN props
                  ELSE [props EXCEPT
                            ![ChainTail(props, cb.nextWindow)].nextWindow = window]
        enlisted == [linked EXCEPT ![window].nextWindow = NULL,
                                   ![window].activeWindow = TRUE]
        texture == RenderTexture(window, windowData.frameCounter)
    IN [props |-> IF windowData.activeWindow THEN props ELSE enlisted,
        cb |-> IF ~windowData.activeWindow /\ cb.nextWindow = NULL
               THEN [cb EXCEPT !.nextWindow = window] ELSE cb,
        texture |-> texture,
        width |-> TextureWidth(texture), height |-> TextureHeight(texture)]

\* IDXGISwapChain3_Present followed by GetCurrentBackBufferIndex: a present
\* that works moves a flip swapchain on to its next back buffer
CurrentBackBufferIndexAfterPresent(index, ok) ==
    IF ok THEN (index + 1) % SWAPCHAIN_BUFFER_COUNT ELSE index

\* a variant that counts frames instead of reading the back-buffer index
RECURSIVE PresentChain_CountsFrames(_, _, _, _)
PresentChain_CountsFrames(props, window, presentOk, presents) ==
    IF window = NULL THEN [props |-> props, presents |-> presents]
    ELSE LET nextWindow == props[window].nextWindow
             index == CurrentBackBufferIndexAfterPresent(
                          props[window].backBufferIndex, presentOk[window])
         IN PresentChain_CountsFrames(
                [props EXCEPT ![window].nextWindow = NULL,
                              ![window].activeWindow = FALSE,
                              ![window].backBufferIndex = index,
                              ![window].frameCounter = @ + 1],
                nextWindow, presentOk,
                [presents EXCEPT ![window] = @ + 1])

\* the while loop of D3D12_Submit: unlink, present, read the index
RECURSIVE PresentChain(_, _, _, _)
PresentChain(props, window, presentOk, presents) ==
    IF window = NULL THEN [props |-> props, presents |-> presents]
    ELSE LET nextWindow == props[window].nextWindow
             index == CurrentBackBufferIndexAfterPresent(
                          props[window].backBufferIndex, presentOk[window])
         IN PresentChain(
                [props EXCEPT ![window].nextWindow = NULL,
                              ![window].activeWindow = FALSE,
                              ![window].backBufferIndex = index,
                              ![window].frameCounter = index],
                nextWindow, presentOk,
                [presents EXCEPT ![window] = @ + 1])

\* a variant that keeps the fence value when the signal failed
D3D12_Submit_KeepsValueOnFailure(props, cb, presentOk, closeOk, signalOk) ==
    LET presented == PresentChain(props, cb.nextWindow, presentOk,
                                  [w \in Windows |-> 0])
    IN [props |-> presented.props,
        presents |-> presented.presents,
        signal |-> cb.fenceValue,
        cb |-> [nextWindow |-> NULL,
                fenceValue |-> IF signalOk THEN cb.fenceValue + 1
                               ELSE cb.fenceValue]]

\* closeOk, signalOk: the results of closing the command list and of
\* signalling the queue, which are logged and otherwise ignored
D3D12_Submit(props, cb, presentOk, closeOk, signalOk) ==
    LET presented == PresentChain(props, cb.nextWindow, presentOk,
                                  [w \in Windows |-> 0])
    IN [props |-> presented.props,
        presents |-> presented.presents,
        signal |-> cb.fenceValue,
        cb |-> [nextWindow |-> NULL, fenceValue |-> cb.fenceValue + 1]]

ClaimWindowOk ==
    /\ ~d3dFault
    /\ ClaimWindowWith({"SDR"}, {ColorSpaces}, {"none"})

\* on a window without window data the call dereferences NULL
AcquireSwapchainTexture ==
    /\ ~d3dFault
    /\ \E window \in Windows :
        IF ~windowProperties[window].hasData
        THEN /\ d3dFault' = TRUE
             /\ UNCHANGED <<windowProperties, d3d12CommandBuffer, d3dCall,
                            signalled, acquiredWindows>>
        ELSE LET r == D3D12_AcquireSwapchainTexture(
                          windowProperties, d3d12CommandBuffer, window)
             IN /\ windowProperties' = r.props
                /\ d3d12CommandBuffer' = r.cb
                /\ acquiredWindows' = acquiredWindows \cup {window}
                /\ d3dCall' = [NoD3DCall EXCEPT
                                !.op = "D3D12_AcquireSwapchainTexture",
                                !.window = window, !.hadData = TRUE,
                                !.ret = "texture", !.texture = r.texture,
                                !.width = r.width, !.height = r.height]
                /\ UNCHANGED <<signalled, d3dFault>>
    /\ UNCHANGED NotD3DVars

D3DSubmit ==
    /\ ~d3dFault
    /\ Len(signalled) < MaxD3DSubmits
    /\ \E presentOk \in [Windows -> BOOLEAN], closeOk, signalOk \in BOOLEAN :
        LET r == D3D12_Submit(windowProperties, d3d12CommandBuffer,
                              presentOk, closeOk, signalOk)
        IN /\ windowProperties' = r.props
           /\ d3d12CommandBuffer' = r.cb
           /\ signalled' = Append(signalled, r.signal)
           /\ acquiredWindows' = {}
           /\ d3dCall' = [NoD3DCall EXCEPT
                            !.op = "D3D12_Submit", !.presents = r.presents,
                            !.presentOk = presentOk,
                            !.acquired = acquiredWindows,
                            !.closeOk = closeOk, !.signalOk = signalOk]
    /\ UNCHANGED d3dFault
    /\ UNCHANGED NotD3DVars

NextPresent ==
    \/ ClaimWindowOk
    \/ UnclaimWindow
    \/ AcquireSwapchainTexture
    \/ D3DSubmit

SpecPresent == InitD3D /\ [][NextPresent]_vars

----------------------------------------------------------------------------
(* D3D12: graphics pipelines, their root signatures, and the root calls *)

\* the resource counts a D3D12Shader carries
ShaderCounts ==
    [samplerCount : 0 .. MaxCount, uniformBufferCount : 0 .. MaxUniformSlots,
     storageBufferCount : 0 .. MaxCount, storageTextureCount : 0 .. MaxCount]

\* the steps at which D3D12_CreateGraphicsPipeline can fail
PipelineFailures == {"none", "convert", "rootSignature", "pipelineState"}

max(a, b) == IF a > b THEN a ELSE b

\* a root parameter of type DESCRIPTOR_TABLE with its one descriptor range
DescriptorTable(rangeType, numDescriptors) ==
    [parameterType |-> "DESCRIPTOR_TABLE", rangeType |-> rangeType,
     numDescriptors |-> numDescriptors]

\* one "if (count > 0)" block of D3D12_INTERNAL_CreateRootSignature
AddDescriptorTable(signature, rangeType, count) ==
    IF ~signature.valid \/ ~(count > 0) THEN signature
    ELSE IF Len(signature.parameters) >= MAX_ROOT_SIGNATURE_PARAMETERS
         THEN NullRootSignature
         ELSE [valid |-> TRUE,
               parameters |-> Append(signature.parameters,
                                     DescriptorTable(rangeType, count))]

\* a variant that puts the sampler table first
D3D12_INTERNAL_CreateRootSignature_SamplerFirst(samplerCount, uniformBufferCount, storageBufferCount, storageTextureCount, ok) ==
    LET s0 == [valid |-> TRUE, parameters |-> <<>>]
        s1 == AddDescriptorTable(s0, "SAMPLER", samplerCount)
        s2 == AddDescriptorTable(s1, "CBV", uniformBufferCount)
        s3 == AddDescriptorTable(s2, "UAV", storageBufferCount)
        s4 == AddDescriptorTable(s3, "UAV", storageTextureCount)
    IN IF ok THEN s4 ELSE NullRootSignature

\* ok: D3D12SerializeRootSignature and CreateRootSignature succeed
D3D12_INTERNAL_CreateRootSignature(samplerCount, uniformBufferCount, storageBufferCount, storageTextureCount, ok) ==
    LET s0 == [valid |-> TRUE, parameters |-> <<>>]
        s1 == AddDescriptorTable(s0, "CBV", uniformBufferCount)
        s2 == AddDescriptorTable(s1, "UAV", storageBufferCount)
        s3 == AddDescriptorTable(s2, "UAV", storageTextureCount)
        s4 == AddDescriptorTable(s3, "SAMPLER", samplerCount)
    IN IF ok THEN s4 ELSE NullRootSignature

\* a variant that builds the root signature from the vertex shader alone
D3D12_CreateGraphicsPipeline_VertexCounts(vertShader, fragShader, failAt) ==
    LET rootSignature ==
            D3D12_INTERNAL_CreateRootSignature(
                vertShader.samplerCount, vertShader.uniformBufferCount,
                vertShader.storageBufferCount, vertShader.storageTextureCount,
                failAt # "rootSignature")
    IN IF failAt # "none" \/ ~rootSignature.valid THEN NullGraphicsPipeline
       ELSE [created |-> TRUE, rootSignature |-> rootSignature,
             vertexSamplerCount |-> vertShader.samplerCount,
             vertexUniformBufferCount |-> vertShader.uniformBufferCount,
             vertexStorageBufferCount |-> vertShader.storageBufferCount,
             vertexStorageTextureCount |-> vertShader.storageTextureCount,
             fragmentSamplerCount |-> fragShader.samplerCount,
             fragmentUniformBufferCount |-> fragShader.uniformBufferCount,
             fragmentStorageBufferCount |-> fragShader.storageBufferCount,
             fragmentStorageTextureCount |-> fragShader.storageTextureCount]

\* failAt "convert": one of the three state conversions fails, before the
\* root signature is made ; "pipelineState": CreateGraphicsPipelineState fails
D3D12_CreateGraphicsPipeline(vertShader, fragShader, failAt) ==
    LET samplerCount == max(vertShader.samplerCount, fragShader.samplerCount)
        uniformBufferCount ==
            max(vertShader.uniformBufferCount, fragShader.uniformBufferCount)
        storageBufferCount ==
            max(vertShader.storageBufferCount, fragShader.storageBufferCount)
        storageTextureCount ==
            max(vertShader.storageTextureCount, fragShader.storageTextureCount)
        rootSignature ==
            D3D12_INTERNAL_CreateRootSignature(samplerCount, uniformBufferCount,
                                               storageBufferCount,
                                               storageTextureCount,
                                               failAt # "rootSignature")
    IN IF failAt # "none" \/ ~rootSignature.valid THEN NullGraphicsPipeline
       ELSE [created |-> TRUE, rootSignature |-> rootSignature,
             vertexSamplerCount |-> vertShader.samplerCount,
             vertexUniformBufferCount |-> vertShader.uniformBufferCount,
             vertexStorageBufferCount |-> vertShader.storageBufferCount,
             vertexStorageTextureCount |-> vertShader.storageTextureCount,
             fragmentSamplerCount |-> fragShader.samplerCount,
             fragmentUniformBufferCount |-> fragShader.uniformBufferCount,
             fragmentStorageBufferCount |-> fragShader.storageBufferCount,
             fragmentStorageTextureCount |-> fragShader.storageTextureCount]

\* a call that sets a root parameter: which call, the root-parameter index,
\* and the kind of descriptor the handle or address passed refers to
RootCall(call, index, kind) == [call |-> call, index |-> index, kind |-> kind]

\* for (i = 0; i < count; i++) call(base + i)
RootCallLoop(call, base, count, kind) ==
    [i \in 1 .. count |-> RootCall(call, base + (i - 1), kind)]

\* the SetGraphicsRootDescriptorTable calls of D3D12_BindGraphicsPipeline
BindGraphicsPipelineRootCalls(pipeline) ==
    RootCallLoop("SetGraphicsRootDescriptorTable", 0,
                 pipeline.vertexUniformBufferCount, "CBV")
    \o RootCallLoop("SetGraphicsRootDescriptorTable",
                    pipeline.vertexUniformBufferCount,
                    pipeline.fragmentUniformBufferCount, "CBV")

\* the command buffer's binding fields after D3D12_BindGraphicsPipeline
BindGraphicsPipelineBinding(binding, pipeline) ==
    [binding EXCEPT !.currentGraphicsPipeline = pipeline,
                    !.needVertexUniformBufferBind = TRUE,
                    !.needFragmentUniformBufferBind = TRUE,
                    !.calls = BindGraphicsPipelineRootCalls(pipeline)]

\* the draw-time flush: the root calls it makes, and the flags cleared
D3D12_INTERNAL_BindGraphicsResources(binding) ==
    LET graphicsPipeline_ == binding.currentGraphicsPipeline
        vertexResourceCount ==
            graphicsPipeline_.vertexSamplerCount
            + graphicsPipeline_.vertexStorageTextureCount
            + graphicsPipeline_.vertexStorageBufferCount
        fragmentResourceCount ==
            graphicsPipeline_.fragmentSamplerCount
            + graphicsPipeline_.fragmentStorageTextureCount
            + graphicsPipeline_.fragmentStorageBufferCount
        table(need, count, index, kind) ==
            IF need /\ count > 0
            THEN <<RootCall("SetGraphicsRootDescriptorTable", index, kind)>>
            ELSE <<>>
        views(need, base, count) ==
            IF need
            THEN RootCallLoop("SetGraphicsRootConstantBufferView", base, count,
                              "CBV")
            ELSE <<>>
    IN [currentGraphicsPipeline |-> graphicsPipeline_,
        needVertexSamplerBind |-> FALSE, needVertexResourceBind |-> FALSE,
        needVertexUniformBufferBind |-> FALSE,
        needFragmentSamplerBind |-> FALSE, needFragmentResourceBind |-> FALSE,
        needFragmentUniformBufferBind |-> FALSE,
        calls |->
            table(binding.needVertexSamplerBind,
                  graphicsPipeline_.vertexSamplerCount, 0, "SAMPLER")
            \o table(binding.needVertexResourceBind, vertexResourceCount, 1,
                     "SRV")
            \o views(binding.needVertexUniformBufferBind, 2,
                     graphicsPipeline_.vertexUniformBufferCount)
            \o table(binding.needFragmentSamplerBind,
                     graphicsPipeline_.fragmentSamplerCount,
                     graphicsPipeline_.vertexSamplerCount + 2, "SAMPLER")
            \o table(binding.needFragmentResourceBind, fragmentResourceCount,
                     graphicsPipeline_.vertexSamplerCount + 3, "SRV")
            \o views(binding.needFragmentUniformBufferBind,
                     graphicsPipeline_.vertexUniformBufferCount + 2,
                     graphicsPipeline_.fragmentUniformBufferCount)]

----------------------------------------------------------------------------
(* D3D12: the uniform buffers of the command buffer *)

D3D12_INTERNAL_TrackUniformBuffer(used, uniformBuffer) ==
    IF \E i \in 1 .. Len(used) : used[i] = uniformBuffer THEN used
    ELSE Append(used, uniformBuffer)

\* pool, made, used: the pool, the buffers created so far, the buffers the
\* command buffer tracks ; a created buffer is named by its number
D3D12_INTERNAL_AcquireUniformBufferFromPool(pool, made, used) ==
    LET fromPool == Len(pool) > 0
        uniformBuffer == IF fromPool THEN pool[Len(pool)] ELSE made + 1
    IN [pool |-> IF fromPool THEN SubSeq(pool, 1, Len(pool) - 1) ELSE pool,
        made |-> IF fromPool THEN made ELSE made + 1,
        used |-> D3D12_INTERNAL_TrackUniformBuffer(used, uniformBuffer),
        uniformBuffer |-> uniformBuffer]

\* one of the two loops of D3D12_BindGraphicsPipeline, from slot i on
RECURSIVE BindUniformSlots(_, _, _, _, _, _)
BindUniformSlots(slots, i, count, pool, made, used) ==
    IF i > count
    THEN [slots |-> slots, pool |-> pool, made |-> made, used |-> used]
    ELSE IF slots[i] # NULL
         THEN BindUniformSlots(slots, i + 1, count, pool, made, used)
         ELSE LET a == D3D12_INTERNAL_AcquireUniformBufferFromPool(pool, made, used)
              IN BindUniformSlots([slots EXCEPT ![i] = a.uniformBuffer],
                                  i + 1, count, a.pool, a.made, a.used)

\* what D3D12_BindGraphicsPipeline does to the uniform buffers
D3D12_BindGraphicsPipeline(pool, made, buffers, vertexCount, fragmentCount) ==
    LET v == BindUniformSlots(buffers.vertex, 1, vertexCount, pool, made,
                              buffers.used)
        f == BindUniformSlots(buffers.fragment, 1, fragmentCount, v.pool,
                              v.made, v.used)
    IN [pool |-> f.pool, made |-> f.made,
        buffers |-> [used |-> f.used, vertex |-> v.slots, fragment |-> f.slots]]

\* the whole of D3D12_BindGraphicsPipeline for one pipeline
BindPipeline(pipeline) ==
    /\ ~d3dFault
    /\ LET r == D3D12_BindGraphicsPipeline(uniformBufferPool, uniformBuffersMade,
                                           uniformBuffers,
                                           pipeline.vertexUniformBufferCount,
                                           pipeline.fragmentUniformBufferCount)
       IN /\ uniformBufferPool' = r.pool
          /\ uniformBuffersMade' = r.made
          /\ uniformBuffers' = r.buffers
    /\ rootBinding' = BindGraphicsPipelineBinding(rootBinding, pipeline)
    /\ d3dCall' = [NoD3DCall EXCEPT !.op = "D3D12_BindGraphicsPipeline"]
    /\ UNCHANGED <<windowProperties, d3d12CommandBuffer, signalled,
                   acquiredWindows, d3dFault>>
    /\ UNCHANGED <<pipelineCall, graphicsPipeline>>
    /\ UNCHANGED <<debugMode, cbVars, texVars, devVars, logVars, fenceVars,
                   passVars, queueVars, rendVars>>

\* a shader that uses uniform buffers only
UniformShader(count) == [NoShader EXCEPT !.uniformBufferCount = count]

\* binding a pipeline made of two shaders that use uniform buffers only
BindGraphicsPipeline ==
    \E vertexCount, fragmentCount \in 0 .. MaxUniformSlots :
        BindPipeline(D3D12_CreateGraphicsPipeline(UniformShader(vertexCount),
                                                  UniformShader(fragmentCount),
                                                  "none"))

\* D3D12_Submit does not touch the uniform buffers
NextPool ==
    \/ BindGraphicsPipeline
    \/ D3DSubmit

SpecPool == InitD3D /\ [][NextPool]_vars

----------------------------------------------------------------------------
(* D3D12: creating a graphics pipeline, binding it, drawing with it *)

NotPipeVars ==
    <<debugMode, cbVars, texVars, devVars, logVars, fenceVars, passVars,
      queueVars, rendVars>>

\* the application creates one pipeline
CreateGraphicsPipeline ==
    /\ ~d3dFault
    /\ pipelineCall.op = "none"
    /\ \E vertShader, fragShader \in ShaderCounts, failAt \in PipelineFailures :
        /\ graphicsPipeline' =
               D3D12_CreateGraphicsPipeline(vertShader, fragShader, failAt)
        /\ pipelineCall' = [op |-> "D3D12_CreateGraphicsPipeline",
                            vertexShader |-> vertShader,
                            fragmentShader |-> fragShader, failAt |-> failAt]
    /\ d3dCall' = [NoD3DCall EXCEPT !.op = "D3D12_CreateGraphicsPipeline"]
    /\ UNCHANGED <<windowProperties, d3d12CommandBuffer, signalled,
                   acquiredWindows, d3dFault>>
    /\ UNCHANGED <<rootBinding, poolVars>>
    /\ UNCHANGED NotPipeVars

BindCreatedPipeline ==
    /\ graphicsPipeline.created
    /\ BindPipeline(graphicsPipeline)

\* D3D12_DrawPrimitives: the flush, then the draw
DrawPrimitives ==
    /\ ~d3dFault
    /\ rootBinding.currentGraphicsPipeline.created
    /\ rootBinding' = D3D12_INTERNAL_BindGraphicsResources(rootBinding)
    /\ d3dCall' = [NoD3DCall EXCEPT !.op = "D3D12_DrawPrimitives"]
    /\ UNCHANGED <<windowProperties, d3d12CommandBuffer, signalled,
                   acquiredWindows, d3dFault>>
    /\ UNCHANGED <<pipelineCall, graphicsPipeline, poolVars>>
    /\ UNCHANGED NotPipeVars

NextPipeline ==
    \/ CreateGraphicsPipeline
    \/ BindCreatedPipeline
    \/ DrawPrimitives

SpecPipeline == InitD3D /\ [][NextPipeline]_vars

----------------------------------------------------------------------------
(* D3D12: beginning and ending a render pass *)

\* Uint32 values are held as their 32-bit patterns read as two's
\* complement, so that UINT32_MAX, all bits set, is (Uint32)-1
UINT32_MAX == 0 - 1

\* a < b as the comparison of two Uint32
LessUint32(a, b) ==
    IF (a >= 0) = (b >= 0) THEN a < b ELSE a >= 0

LoadOps == {"LOAD", "CLEAR", "DONT_CARE"}

MipLevels == {0, 1}

ClearColors == {<<1, 0, 0, 1>>}

\* desc and isRenderTarget of a D3D12Texture
TextureDesc(texture) ==
    IF texture = PlainTexture
    THEN [Width |-> 256, Height |-> 1024, isRenderTarget |-> FALSE]
    ELSE [Width |-> TextureWidth(texture), Height |-> TextureHeight(texture),
          isRenderTarget |-> TRUE]

\* x >> n
ShiftRight(x, n) == x \div (2 ^ n)

D3D12_SetViewport(viewport) ==
    [cmd |-> "RSSetViewports", TopLeftX |-> viewport.x, TopLeftY |-> viewport.y,
     Width |-> viewport.w, Height |-> viewport.h,
     MinDepth |-> viewport.minDepth, MaxDepth |-> viewport.maxDepth]

D3D12_SetScissor(scissor) ==
    [cmd |-> "RSSetScissorRects", left |-> scissor.x, top |-> scissor.y,
     right |-> scissor.x + scissor.w, bottom |-> scissor.y + scissor.h]

\* the smaller of framebufferWidth and each attachment's width >> mipLevel
RECURSIVE FramebufferWidth(_, _, _)
FramebufferWidth(infos, i, framebufferWidth) ==
    IF i > Len(infos) THEN framebufferWidth
    ELSE LET w == ShiftRight(TextureDesc(infos[i].texture).Width, infos[i].mipLevel)
         IN FramebufferWidth(infos, i + 1,
                             IF LessUint32(w, framebufferWidth) THEN w
                             ELSE framebufferWidth)

RECURSIVE FramebufferHeight(_, _, _)
FramebufferHeight(infos, i, framebufferHeight) ==
    IF i > Len(infos) THEN framebufferHeight
    ELSE LET h == ShiftRight(TextureDesc(infos[i].texture).Height, infos[i].mipLevel)
         IN FramebufferHeight(infos, i + 1,
                              IF LessUint32(h, framebufferHeight) THEN h
                              ELSE framebufferHeight)

\* the layout-transition loop of D3D12_BeginRenderPass: per color
\* attachment a barrier, the render-target bind and the clear
RECURSIVE AttachmentCommands(_, _)
AttachmentCommands(colorAttachmentInfos, i) ==
    IF i > Len(colorAttachmentInfos) THEN <<>>
    ELSE LET info == colorAttachmentInfos[i]
         IN <<[cmd |-> "ResourceBarrier", texture |-> info.texture,
               StateBefore |-> "PRESENT", StateAfter |-> "RENDER_TARGET"],
              [cmd |-> "OMSetRenderTargets", texture |-> info.texture],
              [cmd |-> "ClearRenderTargetView", texture |-> info.texture,
               clearColor |-> info.clearColor]>>
            \o AttachmentCommands(colorAttachmentInfos, i + 1)

\* a variant whose default viewport and scissor have the first attachment's size
D3D12_BeginRenderPass_FirstAttachment(cb, colorAttachmentInfos, depthStencilAttachmentInfo) ==
    LET infos == colorAttachmentInfos \o depthStencilAttachmentInfo
        framebufferWidth ==
            IF infos = <<>> THEN UINT32_MAX
            ELSE ShiftRight(TextureDesc(infos[1].texture).Width, infos[1].mipLevel)
        framebufferHeight ==
            IF infos = <<>> THEN UINT32_MAX
            ELSE ShiftRight(TextureDesc(infos[1].texture).Height, infos[1].mipLevel)
    IN IF \E i \in 1 .. Len(infos) : ~TextureDesc(infos[i].texture).isRenderTarget
       THEN [cb |-> cb, commands |-> <<>>]
       ELSE [cb |-> [colorAttachmentCount |-> Len(colorAttachmentInfos),
                     colorAttachmentTexture |->
                         [i \in 1 .. Len(colorAttachmentInfos) |->
                             colorAttachmentInfos[i].texture]],
             commands |->
                 AttachmentCommands(colorAttachmentInfos, 1) \o
                 <<D3D12_SetViewport([x |-> 0, y |-> 0, w |-> framebufferWidth,
                                      h |-> framebufferHeight,
                                      minDepth |-> 0, maxDepth |-> 1]),
                   D3D12_SetScissor([x |-> 0, y |-> 0, w |-> framebufferWidth,
                                     h |-> framebufferHeight])>>]

\* cb: colorAttachmentCount and colorAttachmentTexture ; returns them and
\* the commands recorded on the command list. depthStencilAttachmentInfo is
\* <<>> for NULL and a one-element sequence otherwise
D3D12_BeginRenderPass(cb, colorAttachmentInfos, depthStencilAttachmentInfo) ==
    LET infos == colorAttachmentInfos \o depthStencilAttachmentInfo
        framebufferWidth == FramebufferWidth(infos, 1, UINT32_MAX)
        framebufferHeight == FramebufferHeight(infos, 1, UINT32_MAX)
    IN IF \E i \in 1 .. Len(infos) : ~TextureDesc(infos[i].texture).isRenderTarget
       THEN [cb |-> cb, commands |-> <<>>]
       ELSE [cb |-> [colorAttachmentCount |-> Len(colorAttachmentInfos),
                     colorAttachmentTexture |->
                         [i \in 1 .. Len(colorAttachmentInfos) |->
                             colorAttachmentInfos[i].texture]],
             commands |->
                 AttachmentCommands(colorAttachmentInfos, 1) \o
                 <<D3D12_SetViewport([x |-> 0, y |-> 0, w |-> framebufferWidth,
                                      h |-> framebufferHeight,
                                      minDepth |-> 0, maxDepth |-> 1]),
                   D3D12_SetScissor([x |-> 0, y |-> 0, w |-> framebufferWidth,
                                     h |-> framebufferHeight])>>]

D3D12_EndRenderPass(cb) ==
    [cb |-> NoPassCb,
     commands |-> [i \in 1 .. cb.colorAttachmentCount |->
                      [cmd |-> "ResourceBarrier",
                       texture |-> cb.colorAttachmentTexture[i],
                       StateBefore |-> "RENDER_TARGET", StateAfter |-> "PRESENT"]]]

\* the command stream: each barrier meets its texture in some state and
\* leaves it in StateAfter
RECURSIVE RunBarriers(_, _, _, _)
RunBarriers(state, commands, i, actualBefore) ==
    IF i > Len(commands) THEN [state |-> state, actualBefore |-> actualBefore]
    ELSE IF commands[i].cmd = "ResourceBarrier"
         THEN RunBarriers([state EXCEPT ![commands[i].texture] = commands[i].StateAfter],
                          commands, i + 1,
                          Append(actualBefore, state[commands[i].texture]))
         ELSE RunBarriers(state, commands, i + 1, actualBefore)

ColorAttachmentInfos(textures, mipLevels, loadOps) ==
    [texture : textures, mipLevel : mipLevels, loadOp : loadOps,
     clearColor : ClearColors]

DepthStencilAttachmentInfos(textures, mipLevels) ==
    {<<>>} \cup {<<d>> : d \in [texture : textures, mipLevel : mipLevels]}

\* the sequences over S of length 0 .. n
SeqUpTo(S, n) == UNION {[1 .. k -> S] : k \in 0 .. n}

NotPassVars ==
    <<debugMode, texVars, devVars, logVars, d3dVars, fenceVars, poolVars,
      pipeVars, queueVars, rendVars>>

\* what the back end does when the front end delegates, and its record
BackendPassCall(op, delegated, colors, depth, r) ==
    LET run == RunBarriers(textureState, r.commands, 1, <<>>)
    IN IF delegated
       THEN /\ passCb' = r.cb
            /\ textureState' = run.state
            /\ passCall' = [op |-> op, colors |-> colors, depth |-> depth,
                            delegated |-> TRUE, commands |-> r.commands,
                            actualBefore |-> run.actualBefore]
       ELSE /\ passCall' = [NoPassCall EXCEPT !.op = op, !.colors = colors,
                                              !.depth = depth]
            /\ UNCHANGED <<passCb, textureState>>

PassBegin ==
    /\ UNCHANGED NotPassVars
    /\ \E cb \in CommandBufferArgs :
       \E colors \in SeqUpTo(ColorAttachmentInfos(PassTextures, {0}, {"LOAD"}),
                              MaxColorAttachments),
          depth \in DepthStencilAttachmentInfos(PassTextures, {0}) :
        LET r == SDL_GpuBeginRenderPass(debugMode, header, cb, FALSE, Len(colors))
        IN /\ Apply("SDL_GpuBeginRenderPass", cb,
                    IF Len(colors) = 0 THEN "empty" ELSE "ok", r)
           /\ BackendPassCall("D3D12_BeginRenderPass", r.delegated, colors, depth,
                              D3D12_BeginRenderPass(passCb, colors, depth))

PassEnd ==
    /\ UNCHANGED NotPassVars
    /\ \E pass \in PassArgs("renderPass") :
        LET r == SDL_GpuEndRenderPass(debugMode, header, pass)
        IN /\ Apply("SDL_GpuEndRenderPass", pass, "ok", r)
           /\ BackendPassCall("D3D12_EndRenderPass", r.delegated, <<>>, <<>>,
                              D3D12_EndRenderPass(passCb))

\* a command buffer has been acquired
InitPass ==
    /\ debugMode \in BOOLEAN
    /\ commandBuffer = RendererCommandBuffer
    /\ header = FreshHeader
    /\ passHandles = {}
    /\ lastCall = [NoCall EXCEPT !.op = "SDL_GpuAcquireCommandBuffer",
                                 !.delegated = TRUE, !.ret = "commandBuffer"]
    /\ submitCount = 0
    /\ boundInPass = [graphics |-> FALSE, compute |-> FALSE]
    /\ TexIdle
    /\ DevIdle
    /\ LogIdle
    /\ D3DIdle
    /\ ExtIdle

NextPass == PassBegin \/ PassEnd

SpecPass == InitPass /\ [][NextPass]_vars

\* D3D12_BeginRenderPass alone, over every combination of attachments
InitBegin ==
    /\ debugMode = FALSE
    /\ CbIdle
    /\ TexIdle
    /\ DevIdle
    /\ LogIdle
    /\ D3DIdle
    /\ FenceIdle
    /\ PoolIdle
    /\ PipeIdle
    /\ QueueIdle
    /\ RendIdle
    /\ textureState = [t \in PassTextures |-> "PRESENT"]
    /\ passCb = NoPassCb
    /\ \E colors \in SeqUpTo(ColorAttachmentInfos(PassTextures, MipLevels, LoadOps),
                              MaxColorAttachments),
          depth \in DepthStencilAttachmentInfos(PassTextures, MipLevels) :
        passCall = [NoPassCall EXCEPT !.op = "input", !.colors = colors,
                                      !.depth = depth]

ApplyBeginRenderPass ==
    /\ passCall.op = "input"
    /\ BackendPassCall("D3D12_BeginRenderPass", TRUE, passCall.colors,
                       passCall.depth,
                       D3D12_BeginRenderPass(passCb, passCall.colors, passCall.depth))
    /\ UNCHANGED <<cbVars, NotPassVars>>

SpecBegin == InitBegin /\ [][ApplyBeginRenderPass]_vars

----------------------------------------------------------------------------
(* D3D12_Submit step by step, with the GPU draining the command queue *)

\* what ExecuteCommandLists and ID3D12CommandQueue_Signal put on the queue
ExecuteItem(n) == [kind |-> "execute", value |-> n]

SignalItem(v) == [kind |-> "signal", value |-> v]

\* a variant that never waits
MustWait_Never(completed, toWaitFor) == FALSE

\* ID3D12Fence_GetCompletedValue(fence) < fenceToWaitFor
MustWait(completed, toWaitFor) == completed < toWaitFor

NotFenceVars ==
    <<debugMode, cbVars, texVars, devVars, logVars, d3dCall, d3dFault,
      poolVars, passVars, pipeVars, queueVars, rendVars>>

\* Close and ExecuteCommandLists: the recorded list goes onto the queue,
\* whatever Close returned
SubmitExecute ==
    /\ submitPc = "idle"
    /\ ~d3dFault
    /\ Len(signalled) < MaxD3DSubmits
    /\ \E closeOk \in BOOLEAN :
          submitLog' = [submitLog EXCEPT !.calls = @ + 1, !.closeOk = closeOk,
                                         !.signalOk = TRUE, !.waited = FALSE]
    /\ gpuQueue' = Append(gpuQueue, ExecuteItem(submitLog.calls + 1))
    /\ submitPc' = "signal"
    /\ UNCHANGED <<fenceToWaitFor, completedValue, fenceEvent, eventArmed>>
    /\ UNCHANGED <<windowProperties, d3d12CommandBuffer, signalled, acquiredWindows>>
    /\ UNCHANGED NotFenceVars

\* the present loop, then Signal with fenceValue and fenceValue++ ; a Signal
\* that fails puts nothing on the queue
SubmitSignal ==
    /\ submitPc = "signal"
    /\ \E presentOk \in [Windows -> BOOLEAN], signalOk \in BOOLEAN :
        LET r == D3D12_Submit(windowProperties, d3d12CommandBuffer,
                              presentOk, submitLog.closeOk, signalOk)
        IN /\ windowProperties' = r.props
           /\ d3d12CommandBuffer' = r.cb
           /\ fenceToWaitFor' = r.signal
           /\ signalled' = Append(signalled, r.signal)
           /\ gpuQueue' = IF signalOk THEN Append(gpuQueue, SignalItem(r.signal))
                          ELSE gpuQueue
           /\ submitLog' = [submitLog EXCEPT !.signalOk = signalOk]
    /\ acquiredWindows' = {}
    /\ submitPc' = "check"
    /\ UNCHANGED <<completedValue, fenceEvent, eventArmed>>
    /\ UNCHANGED NotFenceVars

SubmitCheck ==
    /\ submitPc = "check"
    /\ submitPc' = IF MustWait(completedValue, fenceToWaitFor) THEN "arm"
                   ELSE "reset"
    /\ UNCHANGED <<fenceToWaitFor, gpuQueue, completedValue, fenceEvent,
                   eventArmed, submitLog>>
    /\ UNCHANGED <<windowProperties, d3d12CommandBuffer, signalled, acquiredWindows>>
    /\ UNCHANGED NotFenceVars

\* ID3D12Fence_SetEventOnCompletion: the event is set at once when the
\* fence has the value already, and when the fence reaches it otherwise
SubmitArm ==
    /\ submitPc = "arm"
    /\ IF completedValue >= fenceToWaitFor
       THEN fenceEvent' = TRUE /\ UNCHANGED eventArmed
       ELSE eventArmed' = fenceToWaitFor /\ UNCHANGED fenceEvent
    /\ submitPc' = "wait"
    /\ UNCHANGED <<fenceToWaitFor, gpuQueue, completedValue, submitLog>>
    /\ UNCHANGED <<windowProperties, d3d12CommandBuffer, signalled, acquiredWindows>>
    /\ UNCHANGED NotFenceVars

\* WaitForSingleObject(fenceEvent, INFINITE) on an auto-reset event
SubmitWait ==
    /\ submitPc = "wait"
    /\ fenceEvent
    /\ fenceEvent' = FALSE
    /\ submitLog' = [submitLog EXCEPT !.waited = TRUE]
    /\ submitPc' = "reset"
    /\ UNCHANGED <<fenceToWaitFor, gpuQueue, completedValue, eventArmed>>
    /\ UNCHANGED <<windowProperties, d3d12CommandBuffer, signalled, acquiredWindows>>
    /\ UNCHANGED NotFenceVars

\* the command allocator and the command list are reset, and the call returns
SubmitReset ==
    /\ submitPc = "reset"
    /\ submitLog' = [submitLog EXCEPT
                        !.returns = @ + 1,
                        !.resetWhileExecuting =
                            @ \/ \E i \in 1 .. Len(gpuQueue) :
                                     gpuQueue[i].kind = "execute"]
    /\ submitPc' = "idle"
    /\ UNCHANGED <<fenceToWaitFor, gpuQueue, completedValue, fenceEvent, eventArmed>>
    /\ UNCHANGED <<windowProperties, d3d12CommandBuffer, signalled, acquiredWindows>>
    /\ UNCHANGED NotFenceVars

\* the GPU finishes the item at the head of the queue
GpuStep ==
    /\ gpuQueue # <<>>
    /\ gpuQueue' = Tail(gpuQueue)
    /\ LET item == Head(gpuQueue)
       IN IF item.kind = "signal"
          THEN /\ completedValue' = item.value
               /\ IF eventArmed # 0 /\ item.value >= eventArmed
                  THEN fenceEvent' = TRUE /\ eventArmed' = 0
                  ELSE UNCHANGED <<fenceEvent, eventArmed>>
          ELSE UNCHANGED <<completedValue, fenceEvent, eventArmed>>
    /\ UNCHANGED <<submitPc, fenceToWaitFor, submitLog>>
    /\ UNCHANGED <<windowProperties, d3d12CommandBuffer, signalled, acquiredWindows>>
    /\ UNCHANGED NotFenceVars

NextFence ==
    \/ SubmitExecute
    \/ SubmitSignal
    \/ SubmitCheck
    \/ SubmitArm
    \/ SubmitWait
    \/ SubmitReset
    \/ GpuStep

SpecFence == InitD3D /\ [][NextFence]_vars

\* a thread inside D3D12_Submit keeps running, and the GPU keeps draining
\* its queue
SpecFenceFair ==
    /\ SpecFence
    /\ WF_vars(SubmitSignal)
    /\ WF_vars(SubmitCheck)
    /\ WF_vars(SubmitArm)
    /\ WF_vars(SubmitWait)
    /\ WF_vars(SubmitReset)
    /\ WF_vars(GpuStep)

----------------------------------------------------------------------------
(* The GPU renderer: GPU_RunCommandQueue *)

RenderTextures == {NULL, 1}

BlendModes == {"NONE", "BLEND"}

\* the colors a CLEAR command carries
DrawColors == {1, 2}

\* the renderer is not in a linear color space: the color is taken as it is
GetDrawCmdColor(cmd) == cmd.color

\* a queued SDL_RenderCommand ; first is filled in by QueueCommands
RenderCommand(command, texture, blend, count) ==
    [command |-> command, texture |-> texture, blend |-> blend,
     count |-> count, first |-> 0, color |-> 0,
     texture_address_mode |-> "CLAMP"]

\* the commands drawn as inputs: untextured points, triangles, line segments
\* and joined lines, clears, and a command that does nothing
RenderCommands ==
    {RenderCommand("DRAW_POINTS", NULL, b, c) : b \in BlendModes, c \in 1 .. 2}
    \cup {RenderCommand("GEOMETRY", t, b, 3) :
        t \in RenderTextures, b \in BlendModes}
    \cup {RenderCommand("DRAW_LINES", NULL, b, c) : b \in BlendModes, c \in 2 .. 3}
    \cup {[RenderCommand("CLEAR", NULL, "NONE", 0) EXCEPT !.color = c] :
            c \in DrawColors}
    \cup {RenderCommand("NO_OP", NULL, "NONE", 0)}

\* bytes per vertex as the queueing functions lay them out (floats of 4 bytes)
VertexSize(c) ==
    IF c.command = "GEOMETRY"
    THEN 4 * (2 + 4 + (IF c.texture # NULL THEN 2 ELSE 0))
    ELSE 4 * 2

\* the offset of the vertices queued before command i
RECURSIVE FirstOf(_, _)
FirstOf(cmds, i) ==
    IF i = 1 THEN 0
    ELSE FirstOf(cmds, i - 1) + cmds[i - 1].count * VertexSize(cmds[i - 1])

\* the list as the queueing functions leave it: each command's vertices
\* follow those of the command before it
QueueCommands(cmds) ==
    [i \in 1 .. Len(cmds) |-> [cmds[i] EXCEPT !.first = FirstOf(cmds, i)]]

\* the bytes of vertex data the queueing functions allocated for the list
Vertsize(cmds) == FirstOf(cmds, Len(cmds) + 1)

\* UploadVertices : what it returns, the bytes it copies into the mapped
\* transfer buffer (which holds VERTEX_BUFFER_SIZE bytes) and the size of the
\* region it uploads ; the assertion on vertsize is compiled out of release
\* builds
UploadVertices(vertsize, passOk) ==
    IF vertsize = 0 THEN [ret |-> 0, written |-> 0, uploaded |-> 0]
    ELSE IF ~passOk THEN [ret |-> -1, written |-> vertsize, uploaded |-> 0]
    ELSE [ret |-> 0, written |-> vertsize, uploaded |-> vertsize]

IsDrawCommand(c) == c.command \in {"DRAW_POINTS", "GEOMETRY", "DRAW_LINES"}

\* a call GPU_RunCommandQueue makes on the GPU API ; from and to are the
\* positions in the list of the commands a draw stands for, from of a begin
\* the position the walk is at (past the list: after the walk)
GpuCall(call) ==
    [call |-> call, prim |-> "none", vertexCount |-> 0, offset |-> 0,
     texture |-> NULL, blend |-> "NONE", loadOp |-> "none", clearColor |-> 0,
     pipe |-> <<>>, sampler |-> <<>>, attachment |-> NULL,
     from |-> 0, to |-> 0]

\* the texture formats of the swapchain and of the render-target textures
SwapchainFormat == "B8G8R8A8"

\* GPU_TextureData.format of the textures rendered to : texture 2 has the
\* format of the swapchain, texture 3 another
TextureFormat(texture) == IF texture = 3 THEN "R8G8B8A8" ELSE SwapchainFormat

\* data->state as far as drawing goes, with the calls made so far ;
\* render_target is NULL after GPU_InvalidateCachedState
FreshRenderState ==
    [render_pass |-> FALSE, loadOp |-> "LOAD", clearColor |-> 0, calls |-> <<>>,
     color_attachment |-> NULL, render_target |-> NULL]

RestartRenderPass(state, at) ==
    LET ended == IF state.render_pass
                 THEN Append(state.calls, GpuCall("SDL_GpuEndRenderPass"))
                 ELSE state.calls
    IN [state EXCEPT
          !.render_pass = TRUE,
          !.loadOp = "LOAD",
          !.calls = Append(ended, [GpuCall("SDL_GpuBeginRenderPass") EXCEPT
                                      !.loadOp = state.loadOp,
                                      !.clearColor = state.clearColor,
                                      !.attachment = state.color_attachment,
                                      !.from = at])]

\* texture->scaleMode of the textures drawn with
ScaleMode(texture) == IF texture = 1 THEN "NEAREST" ELSE "LINEAR"

\* the slot of data->samplers a sampler is read from
SamplerPointer(address_mode, scale_mode) == <<scale_mode, address_mode>>

\* the pipeline cache hands out one pipeline per key
GPU_GetPipeline(pipe_params) == <<pipe_params>>

\* finalcmd: the position of the last command the draw stands for
Draw(state, cmd, finalcmd, at, num_verts, offset, prim) ==
    LET started == IF ~state.render_pass THEN RestartRenderPass(state, at)
                   ELSE state
        textured == cmd[at].texture # NULL
        v_shader == IF prim = "TRIANGLELIST"
                    THEN IF textured THEN "VERT_SHADER_TRI_TEXTURE"
                         ELSE "VERT_SHADER_TRI_COLOR"
                    ELSE "VERT_SHADER_LINEPOINT"
        f_shader == IF prim = "TRIANGLELIST" /\ textured
                    THEN "FRAG_SHADER_TEXTURE_RGBA"
                    ELSE "FRAG_SHADER_COLOR"
        pipe == GPU_GetPipeline([blend_mode |-> cmd[at].blend,
                                 vert_shader |-> v_shader,
                                 frag_shader |-> f_shader,
                                 primitive_type |-> prim,
                                 attachment_format |->
                                     IF state.render_target # NULL
                                     THEN TextureFormat(state.render_target)
                                     ELSE SwapchainFormat])
    IN IF pipe = <<>> THEN started
       ELSE [started EXCEPT !.calls =
                Append(started.calls,
                       [GpuCall("SDL_GpuDrawPrimitives") EXCEPT
                           !.prim = prim, !.vertexCount = num_verts,
                           !.offset = offset, !.texture = cmd[at].texture,
                           !.blend = cmd[at].blend, !.pipe = pipe,
                           !.sampler =
                               IF textured
                               THEN SamplerPointer(cmd[at].texture_address_mode,
                                                   ScaleMode(cmd[at].texture))
                               ELSE <<>>,
                           !.from = at, !.to = finalcmd])]

\* a variant of the grouping loop that does not look at the blend mode
RECURSIVE GroupDraws_AnyBlend(_, _, _, _, _)
GroupDraws_AnyBlend(cmd, at, nextcmd, finalcmd, count) ==
    IF nextcmd > Len(cmd) THEN [finalcmd |-> finalcmd, count |-> count]
    ELSE IF cmd[nextcmd].command # cmd[at].command
         THEN [finalcmd |-> finalcmd, count |-> count]
         ELSE IF cmd[nextcmd].texture # cmd[at].texture
              THEN [finalcmd |-> finalcmd, count |-> count]
              ELSE GroupDraws_AnyBlend(cmd, at, nextcmd + 1, nextcmd,
                                       count + cmd[nextcmd].count)

\* the while loop of the DRAW_POINTS / GEOMETRY case, from nextcmd on
RECURSIVE GroupDraws(_, _, _, _, _)
GroupDraws(cmd, at, nextcmd, finalcmd, count) ==
    IF nextcmd > Len(cmd) THEN [finalcmd |-> finalcmd, count |-> count]
    ELSE IF cmd[nextcmd].command # cmd[at].command
         THEN [finalcmd |-> finalcmd, count |-> count]
         ELSE IF \/ cmd[nextcmd].texture # cmd[at].texture
                 \/ cmd[nextcmd].blend # cmd[at].blend
              THEN [finalcmd |-> finalcmd, count |-> count]
              ELSE GroupDraws(cmd, at, nextcmd + 1, nextcmd,
                              count + cmd[nextcmd].count)

\* a variant of the line grouping that also takes joined lines
RECURSIVE GroupLines_TakesJoined(_, _, _, _, _)
GroupLines_TakesJoined(cmd, at, nextcmd, finalcmd, count) ==
    IF nextcmd > Len(cmd) THEN [finalcmd |-> finalcmd, count |-> count]
    ELSE IF cmd[nextcmd].command # "DRAW_LINES"
         THEN [finalcmd |-> finalcmd, count |-> count]
         ELSE IF cmd[nextcmd].blend # cmd[at].blend
              THEN [finalcmd |-> finalcmd, count |-> count]
              ELSE GroupLines_TakesJoined(cmd, at, nextcmd + 1, nextcmd,
                                          count + cmd[nextcmd].count)

\* the while loop of the DRAW_LINES case, from nextcmd on
RECURSIVE GroupLines(_, _, _, _, _)
GroupLines(cmd, at, nextcmd, finalcmd, count) ==
    IF nextcmd > Len(cmd) THEN [finalcmd |-> finalcmd, count |-> count]
    ELSE IF cmd[nextcmd].command # "DRAW_LINES"
         THEN [finalcmd |-> finalcmd, count |-> count]
         ELSE IF cmd[nextcmd].count # 2
              THEN [finalcmd |-> finalcmd, count |-> count]
              ELSE IF cmd[nextcmd].blend # cmd[at].blend
                   THEN [finalcmd |-> finalcmd, count |-> count]
                   ELSE GroupLines(cmd, at, nextcmd + 1, nextcmd,
                                   count + cmd[nextcmd].count)

\* the while (cmd) loop, from position at on
RECURSIVE RunCommands(_, _, _)
RunCommands(cmd, at, state) ==
    IF at > Len(cmd) THEN state
    ELSE LET c == cmd[at]
         IN CASE c.command = "CLEAR" ->
                   RunCommands(cmd, at + 1,
                       LET cleared == [state EXCEPT
                                         !.clearColor = GetDrawCmdColor(c),
                                         !.loadOp = "CLEAR"]
                       IN IF state.render_pass
                          THEN RestartRenderPass(cleared, at)
                          ELSE cleared)
              [] c.command = "DRAW_LINES" ->
                   IF c.count > 2
                   THEN RunCommands(cmd, at + 1,
                            Draw(state, cmd, at, at, c.count, c.first, "LINESTRIP"))
                   ELSE LET g == GroupLines(cmd, at, at + 1, at, c.count)
                        IN RunCommands(cmd, g.finalcmd + 1,
                               Draw(state, cmd, g.finalcmd, at, g.count, c.first,
                                    "LINELIST"))
              [] c.command \in {"DRAW_POINTS", "GEOMETRY"} ->
                   LET g == GroupDraws(cmd, at, at + 1, at, c.count)
                       prim == IF c.command = "DRAW_POINTS" THEN "POINTLIST"
                               ELSE "TRIANGLELIST"
                   IN RunCommands(cmd, g.finalcmd + 1,
                          Draw(state, cmd, g.finalcmd, at, g.count, c.first, prim))
              [] OTHER -> RunCommands(cmd, at + 1, state)

\* a variant that forgets a clear no draw has followed
GPU_RunCommandQueue_NoFinalClear(cmd, uploadOk, texture) ==
    LET upload == UploadVertices(Vertsize(cmd), uploadOk)
    IN IF upload.ret # 0 \/ texture = NULL
       THEN [ran |-> TRUE, ret |-> -1, draws |-> <<>>, upload |-> upload]
       ELSE LET run == RunCommands(cmd, 1, [FreshRenderState EXCEPT
                                                 !.color_attachment = texture])
                calls == IF run.render_pass
                         THEN Append(run.calls, GpuCall("SDL_GpuEndRenderPass"))
                         ELSE run.calls
            IN [ran |-> TRUE, ret |-> 0, draws |-> calls, upload |-> upload]

\* GPU_RunCommandQueue with data->state as it stands after the color
\* attachment's texture has been chosen ; uploadOk: SDL_GpuBeginCopyPass hands
\* UploadVertices a pass ; vertsize is what the queueing functions allocated
\* for cmd
GPU_RunCommandQueueIn(state, cmd, uploadOk) ==
    LET upload == UploadVertices(Vertsize(cmd), uploadOk)
    IN IF upload.ret # 0
       THEN [ran |-> TRUE, ret |-> -1, draws |-> <<>>, upload |-> upload]
       ELSE IF state.color_attachment = NULL
       THEN [ran |-> TRUE, ret |-> -1, draws |-> <<>>, upload |-> upload]
       ELSE LET run == RunCommands(cmd, 1, state)
                cleared == IF run.loadOp # "LOAD" /\ ~run.render_pass
                           THEN RestartRenderPass(run, Len(cmd) + 1) ELSE run
                calls == IF cleared.render_pass
                         THEN Append(cleared.calls, GpuCall("SDL_GpuEndRenderPass"))
                         ELSE cleared.calls
            IN [ran |-> TRUE, ret |-> 0, draws |-> calls, upload |-> upload]

\* the run with the renderer drawing to the window ; texture: the swapchain
\* texture, NULL when none could be acquired
GPU_RunCommandQueue(cmd, uploadOk, texture) ==
    GPU_RunCommandQueueIn([FreshRenderState EXCEPT !.color_attachment = texture],
                          cmd, uploadOk)

\* the renderer is handed a queue of up to MaxCommands commands
InitQueue ==
    /\ debugMode = FALSE
    /\ CbIdle
    /\ TexIdle
    /\ DevIdle
    /\ LogIdle
    /\ D3DIdle
    /\ FenceIdle
    /\ PoolIdle
    /\ PassIdle
    /\ PipeIdle
    /\ RendIdle
    /\ renderRun = NoRenderRun
    /\ \E cmds \in SeqUpTo(RenderCommands, MaxCommands),
          uploadOk \in BOOLEAN, texture \in RenderTextures :
        /\ uploadOk \/ texture # NULL
        /\ renderQueue = [cmd |-> QueueCommands(cmds), uploadOk |-> uploadOk,
                          texture |-> texture]

RunCommandQueue ==
    /\ ~renderRun.ran
    /\ renderRun' = GPU_RunCommandQueue(renderQueue.cmd, renderQueue.uploadOk,
                                        renderQueue.texture)
    /\ UNCHANGED <<debugMode, cbVars, texVars, devVars, logVars, d3dVars,
                   fenceVars, poolVars, passVars, pipeVars, rendVars, renderQueue>>

SpecQueue == InitQueue /\ [][RunCommandQueue]_vars

----------------------------------------------------------------------------
(* Properties of the command-buffer state machine (checked under Spec) *)

AnyPassInProgress(h) ==
    h.renderPass.inProgress \/ h.computePass.inProgress \/ h.copyPass.inProgress

AtMostOnePassInProgress(h) ==
    /\ ~(h.renderPass.inProgress /\ h.computePass.inProgress)
    /\ ~(h.renderPass.inProgress /\ h.copyPass.inProgress)
    /\ ~(h.computePass.inProgress /\ h.copyPass.inProgress)

\* C1 as stated: after any sequence of public calls, on a device with or
\* without debugMode, at most one of the three in-progress flags is set.
\* Violated: without debugMode the Begin calls skip their checks.
C1_AtMostOnePassAnyMode == AtMostOnePassInProgress(header)

\* C1, amended: on a debugMode device at most one of renderPass.inProgress,
\* computePass.inProgress and copyPass.inProgress is true in every state
\* reached by public calls.
C1_AtMostOnePassDebug == debugMode => AtMostOnePassInProgress(header)

\* a Begin call was refused on a debugMode device while a copy pass is open
C1_Witness ==
    /\ debugMode
    /\ header.copyPass.inProgress
    /\ lastCall.op = "SDL_GpuBeginRenderPass"
    /\ ~lastCall.handleNull
    /\ ~lastCall.delegated

\* the calls C2 speaks of: begin-pass, end-pass, draw, dispatch and bind calls
C2Fns ==
    BeginFns \cup EndFns \cup DrawFns \cup DispatchFns \cup PipelineBindFns
    \cup GraphicsResourceBindFns \cup ComputeResourceBindFns
    \cup {"SDL_GpuBindVertexBuffers", "SDL_GpuBindIndexBuffer"}

\* C2: on a debugMode device, any begin/end/draw/dispatch/bind call made
\* while submitted is true returns its sentinel, does not reach the back end
\* and leaves the command-buffer header unchanged.
\* Violated by SDL_GpuBindGraphicsPipeline, which has no debug-mode check.
C2_SubmittedIsInert ==
    [][ (debugMode /\ header.submitted /\ lastCall'.op \in C2Fns)
        => /\ ~lastCall'.delegated
           /\ header' = header
           /\ (lastCall'.op \in BeginFns => lastCall'.ret = "NULL") ]_vars

\* C3: on a debugMode device a submit call reaches the back end only from a
\* state with submitted false and no pass in progress, the back end then sees
\* submitted already true; from any other state it returns (NULL for the
\* fence variant) without reaching the back end and leaves submitted as it
\* was; so the back end's submit runs at most once between two acquisitions.
C3_SubmitAtMostOnce ==
    /\ [][ (debugMode /\ lastCall'.op \in SubmitFns)
           => /\ lastCall'.delegated
                    => /\ ~header.submitted
                       /\ ~AnyPassInProgress(header)
                       /\ lastCall'.seenSubmitted
                       /\ header'.submitted
              /\ (header.submitted \/ AnyPassInProgress(header))
                    => /\ ~lastCall'.delegated
                       /\ header'.submitted = header.submitted
                       /\ (lastCall'.op = "SDL_GpuSubmitAndAcquireFence"
                              => lastCall'.ret = "NULL")
              /\ (~lastCall'.handleNull /\ ~header.submitted
                  /\ ~AnyPassInProgress(header)) => lastCall'.delegated ]_vars
    /\ [](debugMode => submitCount <= 1)

\* a second submit of the same acquisition was refused
C3_Witness ==
    /\ debugMode
    /\ lastCall.op = "SDL_GpuSubmit"
    /\ ~lastCall.handleNull
    /\ ~lastCall.delegated
    /\ header.submitted
    /\ submitCount = 1

\* C4 as stated: once submitted is set, no later public call clears it.
\* Violated: SDL_GpuAcquireCommandBuffer returns the renderer's one command
\* buffer again and resets its header.
C4_SubmittedIsTerminal == [][header.submitted => header'.submitted]_vars

\* C4, amended: once submitted is set, the only public call that clears it
\* is a successful SDL_GpuAcquireCommandBuffer, which hands out the same
\* object again in the Recording state.
C4_SubmittedUntilAcquire ==
    [][ (header.submitted /\ ~header'.submitted)
        => (lastCall'.op = "SDL_GpuAcquireCommandBuffer" /\ lastCall'.delegated)
      ]_vars

\* a call other than submit or acquire reached the back end after submission
\* and the buffer is still submitted
C4_Witness ==
    /\ header.submitted
    /\ lastCall.op \notin SubmitFns \cup {"SDL_GpuAcquireCommandBuffer"}
    /\ lastCall.delegated

\* C5: on a debugMode device a Begin call made while any pass is in progress
\* returns NULL, does not reach the back end and leaves the header unchanged.
C5_NestedBeginRejected ==
    [][ (debugMode /\ AnyPassInProgress(header) /\ lastCall'.op \in BeginFns)
        => /\ lastCall'.ret = "NULL"
           /\ ~lastCall'.delegated
           /\ header' = header ]_vars

\* begin render pass, then begin compute pass without ending it
C5_Witness ==
    /\ debugMode
    /\ header.renderPass.inProgress
    /\ ~header.computePass.inProgress
    /\ lastCall.op = "SDL_GpuBeginComputePass"
    /\ ~lastCall.handleNull
    /\ lastCall.ret = "NULL"

\* C6: an End call on a pass in progress reaches the back end and clears the
\* pass's in-progress flag and its pipeline-bound flag; on a debugMode device
\* an End call whose pass is not in progress does not reach the back end and
\* changes nothing.
C6_EndClearsPass ==
    [][ /\ (lastCall'.op = "SDL_GpuEndRenderPass" /\ ~lastCall'.handleNull
            /\ header.renderPass.inProgress)
           => /\ lastCall'.delegated
              /\ ~header'.renderPass.inProgress
              /\ ~header'.graphicsPipelineBound
        /\ (lastCall'.op = "SDL_GpuEndComputePass" /\ ~lastCall'.handleNull
            /\ header.computePass.inProgress)
           => /\ lastCall'.delegated
              /\ ~header'.computePass.inProgress
              /\ ~header'.computePipelineBound
        /\ (lastCall'.op = "SDL_GpuEndCopyPass" /\ ~lastCall'.handleNull
            /\ header.copyPass.inProgress)
           => /\ lastCall'.delegated
              /\ ~header'.copyPass.inProgress
        /\ (debugMode /\ lastCall'.op = "SDL_GpuEndRenderPass"
            /\ ~header.renderPass.inProgress)
           => (~lastCall'.delegated /\ header' = header)
        /\ (debugMode /\ lastCall'.op = "SDL_GpuEndComputePass"
            /\ ~header.computePass.inProgress)
           => (~lastCall'.delegated /\ header' = header)
        /\ (debugMode /\ lastCall'.op = "SDL_GpuEndCopyPass"
            /\ ~header.copyPass.inProgress)
           => (~lastCall'.delegated /\ header' = header) ]_vars

\* a render pass in which a pipeline had been bound has just been ended
C6_Witness ==
    /\ lastCall.op = "SDL_GpuEndRenderPass"
    /\ lastCall.delegated
    /\ ~header.renderPass.inProgress
    /\ ~header.graphicsPipelineBound
    /\ "renderPass" \in passHandles

\* C7: on a debugMode device graphicsPipelineBound implies
\* renderPass.inProgress and computePipelineBound implies
\* computePass.inProgress, so every draw (dispatch) that reaches the back end
\* comes after a pipeline bind made inside the same render (compute) pass.
\* Violated: SDL_GpuBindGraphicsPipeline is accepted outside a render pass.
C7_BoundImpliesInProgress ==
    debugMode =>
        /\ header.graphicsPipelineBound => header.renderPass.inProgress
        /\ header.computePipelineBound => header.computePass.inProgress
        /\ (lastCall.op \in DrawFns /\ lastCall.delegated) => boundInPass.graphics
        /\ (lastCall.op \in DispatchFns /\ lastCall.delegated) => boundInPass.compute

\* C8 as stated: on a debugMode device a uniform push or a resource bind
\* reaches the back end only while the compatible pass is in progress and
\* its pipeline is bound.  Violated: the pushes check only the submitted flag
\* and the binds only the in-progress flag.
C8_PushBindNeedPassAndPipeline ==
    (debugMode /\ lastCall.delegated) =>
        /\ lastCall.op \in GraphicsResourceBindFns
                \cup {"SDL_GpuPushVertexUniformData", "SDL_GpuPushFragmentUniformData"}
              => (header.renderPass.inProgress /\ header.graphicsPipelineBound)
        /\ lastCall.op \in ComputeResourceBindFns \cup {"SDL_GpuPushComputeUniformData"}
              => (header.computePass.inProgress /\ header.computePipelineBound)

\* C8, amended: on a debugMode device the vertex/fragment resource binds
\* reach the back end only while the render pass is in progress and the
\* compute resource binds only while the compute pass is in progress (no
\* bound pipeline is required); the uniform pushes reach the back end only
\* while the command buffer is not submitted, inside or outside a pass.
C8_PushBindGuards ==
    (debugMode /\ lastCall.delegated) =>
        /\ lastCall.op \in GraphicsResourceBindFns => header.renderPass.inProgress
        /\ lastCall.op \in ComputeResourceBindFns => header.computePass.inProgress
        /\ lastCall.op \in PushUniformFns => ~header.submitted

\* a sampler bind reached the back end in a render pass with no pipeline bound
C8_Witness ==
    /\ debugMode
    /\ lastCall.op = "SDL_GpuBindFragmentSamplers"
    /\ lastCall.delegated
    /\ header.renderPass.inProgress
    /\ ~header.graphicsPipelineBound

----------------------------------------------------------------------------
(* Properties of texture creation (checked under SpecTex) *)

\* the texture invariants, as the data model states them
ViolatesTextureInvariant(info) ==
    \/ info.width <= 0 \/ info.height <= 0 \/ info.depth <= 0
    \/ info.layerCount <= 0 \/ info.levelCount <= 0
    \/ {"SAMPLER", "GRAPHICS_STORAGE_READ"} \subseteq info.usageFlags
    \/ (IsIntegerFormat(info.format) /\ "SAMPLER" \in info.usageFlags)
    \/ /\ info.type = "CUBE"
       /\ \/ info.width # info.height
          \/ info.depth > 1
          \/ info.layerCount # 6
          \/ info.sampleCount > SDL_GPU_SAMPLECOUNT_1
    \/ /\ info.type = "3D"
       /\ \/ info.layerCount > 1
          \/ info.sampleCount > SDL_GPU_SAMPLECOUNT_1
          \/ "DEPTH_STENCIL_TARGET" \in info.usageFlags
    \/ /\ info.type = "2D"
       /\ info.sampleCount > SDL_GPU_SAMPLECOUNT_1
       /\ info.levelCount > 1

\* C9: on a debugMode device SDL_GpuCreateTexture returns NULL without
\* reaching the back end whenever the create-info violates a texture
\* invariant; without debugMode the create-info is delegated unchecked.
C9_InvalidTextureRejected ==
    texResult # "none" =>
        /\ (debugMode /\ ViolatesTextureInvariant(texInfo)) => texResult = "NULL"
        /\ ~debugMode => texResult = "delegated"

\* a 256x128 cube texture with 6 layers, valid in every other respect
C9_Witness ==
    /\ debugMode
    /\ texResult = "NULL"
    /\ texSupported
    /\ texInfo = [type |-> "CUBE", format |-> "R8G8B8A8", width |-> 256,
                  height |-> 128, depth |-> 1, layerCount |-> 6,
                  levelCount |-> 1, sampleCount |-> SDL_GPU_SAMPLECOUNT_1,
                  usageFlags |-> {"SAMPLER"}]

ExceedsExtentLimit(info) ==
    \/ /\ info.type \in {"2D", "2D_ARRAY", "CUBE"}
       /\ (info.width > MAX_2D_DIMENSION \/ info.height > MAX_2D_DIMENSION)
    \/ /\ info.type = "3D"
       /\ \/ info.width > MAX_3D_DIMENSION
          \/ info.height > MAX_3D_DIMENSION
          \/ info.depth > MAX_3D_DIMENSION

\* C10: on a debugMode device SDL_GpuCreateTexture rejects (NULL, back end
\* not called) every texture beyond the extent limits: width or height above
\* 16384 for 2D, 2D-array and cube textures, any extent above 2048 for 3D.
\* Violated: the 2D / 2D-array branch checks no extent.
C10_ExtentLimitsEnforced ==
    (texResult # "none" /\ debugMode /\ ExceedsExtentLimit(texInfo))
        => texResult = "NULL"

----------------------------------------------------------------------------
\* C11: Whatever the debug mode, a call whose handle or other required pointer
\* is NULL, or that passes a NULL array with a count above 0, does not reach
\* the back end; without debug checks in the way, a NULL array with count 0
\* is delegated.
C11_NullArgumentRejected ==
    /\ (lastCall.handleNull \/ lastCall.shape = "null") => ~lastCall.delegated
    /\ (~debugMode /\ ~lastCall.handleNull /\ lastCall.shape = "empty")
            => lastCall.delegated

----------------------------------------------------------------------------
(* Properties of device creation (checked under SpecDev) *)

\* back end number i of the registry qualifies for the request
Qualifies(i) ==
    LET b == Bootstrap(backends[i])
    IN /\ RequestedDriver(createProps) # NoName
            => SDL_strcasecmp(RequestedDriver(createProps), b.Name) = 0
       /\ b.shaderFormats \cap createProps.formatFlags # {}
       /\ prepareDriver[backends[i]]

QualifyingBackends == {i \in 1 .. Len(backends) : Qualifies(i)}

\* C12: Device creation selects the first back end in registry order that
\* matches the requested name when there is one, whose shader formats overlap
\* the requested formats and whose probe succeeds; when none qualifies the
\* selection is SDL_GPU_DRIVER_INVALID and no device is returned.
C12_FirstQualifyingBackend ==
    selectedBackend # NotSelected =>
        /\ selectedBackend =
                IF QualifyingBackends = {} THEN SDL_GPU_DRIVER_INVALID
                ELSE Bootstrap(backends[FirstIndex(QualifyingBackends)]).backendflag
        /\ selectedBackend = SDL_GPU_DRIVER_INVALID => ~gpuDevice.valid

\* C13: A returned device stores the selected back end, the debug flag and
\* exactly the requested formats that the back end supports, so that a
\* debug-mode device refuses every shader in a format that was not requested.
C13_DeviceStoresIntersection ==
    gpuDevice.valid =>
        /\ gpuDevice.backend = selectedBackend
        /\ gpuDevice.debugMode = createProps.debugMode
        /\ gpuDevice.shaderFormats =
                createProps.formatFlags
                    \cap {f \in ShaderFormats :
                            \E b \in Backends :
                                /\ Bootstrap(b).backendflag = selectedBackend
                                /\ f \in Bootstrap(b).shaderFormats}
        /\ (gpuDevice.debugMode /\ shaderCall # NoShaderCall
                /\ shaderCall.format \notin createProps.formatFlags)
            => shaderCall.ret = "NULL"

----------------------------------------------------------------------------
(* Properties of command order (checked under SpecOrder) *)

IsAccepted(call) == call.accepted

\* the public calls that passed the front end's checks, in call order
AcceptedCalls == SelectSeq(frontCalls, IsAccepted)

----------------------------------------------------------------------------
(* Properties of window claiming (checked under SpecClaim) *)

\* C15: A successful claim of an unclaimed window stores its window data, and
\* the unclaim that follows removes the entry again, leaving the window as it
\* was before the claim; claiming a claimed window returns false and changes
\* no window data; unclaiming an unclaimed window changes nothing.
C15_ClaimUnclaimRoundTrip ==
    [][LET w == d3dCall'.window
       IN /\ (d3dCall'.op = "D3D12_ClaimWindow" /\ d3dCall'.ret = "TRUE")
                => /\ ~windowProperties[w].hasData
                   /\ windowProperties'[w].hasData
          /\ (d3dCall'.op = "D3D12_ClaimWindow" /\ windowProperties[w].hasData)
                => /\ d3dCall'.ret = "FALSE"
                   /\ windowProperties' = windowProperties
          /\ d3dCall'.op = "D3D12_UnclaimWindow"
                => /\ windowProperties'[w] = ZeroWindowData
                   /\ \A v \in Windows \ {w} :
                        windowProperties'[v] = windowProperties[v]
                   /\ ~windowProperties[w].hasData
                        => windowProperties' = windowProperties
      ]_vars

\* a claimed window has just been unclaimed while another one stays claimed
C15_Witness ==
    /\ d3dCall.op = "D3D12_UnclaimWindow"
    /\ d3dCall.hadData
    /\ ~windowProperties[d3dCall.window].hasData
    /\ \E v \in Windows : windowProperties[v].hasData

\* C16: Claiming a window with composition C fails exactly when the new
\* swapchain does not report PRESENT support for the color space C maps to;
\* after the failure the window has no window data and no swapchain object
\* created by the attempt is left unreleased.
C16_ClaimFailsOnUnsupportedColorSpace ==
    (d3dCall.op = "D3D12_ClaimWindow" /\ ~d3dCall.hadData) =>
        /\ d3dCall.ret = "FALSE"
                <=> SwapchainCompositionToColorSpace(d3dCall.composition)
                        \notin d3dCall.supported
        /\ d3dCall.ret = "FALSE"
                => /\ ~windowProperties[d3dCall.window].hasData
                   /\ d3dCall.unreleased = 0

----------------------------------------------------------------------------
(* Properties of acquiring and submitting (checked under SpecPresent) *)

\* the windows on the chain that starts at window, in order
RECURSIVE ChainFrom(_, _)
ChainFrom(props, window) ==
    IF window = NULL THEN <<>>
    ELSE <<window>> \o ChainFrom(props, props[window].nextWindow)

ActiveWindowChain == ChainFrom(windowProperties, d3d12CommandBuffer.nextWindow)

ChainWindows == {ActiveWindowChain[i] : i \in 1 .. Len(ActiveWindowChain)}

\* C17: while no call has faulted, the windows acquired since the last
\* D3D12_Submit are exactly the windows on the command buffer's
\* active-window chain, each of them once, and activeWindow is true exactly
\* for them ; right after a D3D12_Submit every window acquired before it
\* has been presented once and no other window has, the chain is empty,
\* and every window has activeWindow false and nextWindow NULL
C17_ChainHoldsAcquiredWindowsOnce ==
    ~d3dFault =>
        /\ ChainWindows = acquiredWindows
        /\ Len(ActiveWindowChain) = Cardinality(acquiredWindows)
        /\ \A w \in Windows :
               windowProperties[w].activeWindow <=> w \in ChainWindows
        /\ d3dCall.op = "D3D12_Submit" =>
               /\ \A w \in Windows :
                      d3dCall.presents[w] = IF w \in d3dCall.acquired THEN 1 ELSE 0
               /\ d3d12CommandBuffer.nextWindow = NULL
               /\ \A w \in Windows :
                      /\ ~windowProperties[w].activeWindow
                      /\ windowProperties[w].nextWindow = NULL

\* every window was acquired, one of them more than once, and the
\* submission that followed presented them all
C17_Witness ==
    /\ ~d3dFault
    /\ d3dCall.op = "D3D12_Submit"
    /\ d3dCall.acquired = Windows
    /\ \A w \in Windows : d3dCall.presents[w] = 1
    /\ Len(signalled) >= 2

\* C18: between its claim and its unclaim, the frameCounter of a window
\* never decreases
C18_FrameCounterMonotonic ==
    [][\A w \in Windows :
          windowProperties[w].hasData /\ windowProperties'[w].hasData =>
              windowProperties'[w].frameCounter >= windowProperties[w].frameCounter]_vars

\* C18 as the code has it: the frameCounter of a claimed window changes only
\* in a D3D12_Submit that presents the window successfully, and then moves
\* to the next back-buffer index modulo SWAPCHAIN_BUFFER_COUNT, so that it
\* goes back from SWAPCHAIN_BUFFER_COUNT - 1 to 0
C18_FrameCounterCycles ==
    [][\A w \in Windows :
          windowProperties[w].hasData /\ windowProperties'[w].hasData =>
              LET before == windowProperties[w].frameCounter
                  after == windowProperties'[w].frameCounter
                  presented == /\ d3dCall'.op = "D3D12_Submit"
                               /\ Len(signalled') = Len(signalled) + 1
                               /\ w \in d3dCall'.acquired
                               /\ d3dCall'.presentOk[w]
              IN after = IF presented
                         THEN (before + 1) % SWAPCHAIN_BUFFER_COUNT
                         ELSE before]_vars

\* a submission has just presented a window whose frameCounter is back at 0
C18_Witness ==
    /\ ~d3dFault
    /\ d3dCall.op = "D3D12_Submit"
    /\ \E w \in Windows :
          /\ windowProperties[w].hasData
          /\ w \in d3dCall.acquired
          /\ d3dCall.presentOk[w]
          /\ windowProperties[w].frameCounter = 0

BackBufferIndices == 0 .. SWAPCHAIN_BUFFER_COUNT - 1

\* what holds of every claimed window in a state
BackBufferIndexed ==
    \A w \in Windows :
        windowProperties[w].hasData =>
            /\ windowProperties[w].frameCounter = windowProperties[w].backBufferIndex
            /\ windowProperties[w].frameCounter \in BackBufferIndices
            /\ (d3dCall.op = "D3D12_ClaimWindow" /\ d3dCall.window = w
                    /\ d3dCall.ret = "TRUE")
                   => windowProperties[w].frameCounter = 0
            /\ (d3dCall.op = "D3D12_AcquireSwapchainTexture" /\ d3dCall.window = w)
                   => /\ d3dCall.texture \in {RenderTexture(w, i) : i \in BackBufferIndices}
                      /\ d3dCall.texture = RenderTexture(w, windowProperties[w].frameCounter)
                      /\ d3dCall.width = TextureWidth(d3dCall.texture)
                      /\ d3dCall.height = TextureHeight(d3dCall.texture)

\* C19: after every call, a claimed window's frameCounter is the index of
\* its swapchain's current back buffer and is below SWAPCHAIN_BUFFER_COUNT ;
\* it is 0 right after the claim ; D3D12_AcquireSwapchainTexture returns the
\* back-buffer texture at frameCounter, one of the window's
\* SWAPCHAIN_BUFFER_COUNT textures, with that texture's width and height ;
\* and a D3D12_Submit that presents an acquired window moves its
\* frameCounter from 0 to 1 and from 1 to 0
C19_FrameCounterIndexesBackBuffer ==
    [][/\ BackBufferIndexed'
       /\ \A w \in Windows :
            (/\ windowProperties[w].hasData
             /\ d3dCall'.op = "D3D12_Submit"
             /\ Len(signalled') = Len(signalled) + 1
             /\ w \in acquiredWindows
             /\ d3dCall'.presentOk[w])
                => windowProperties'[w].frameCounter = 1 - windowProperties[w].frameCounter]_vars

\* a window presented by two submissions is acquired again and gets its
\* first back buffer
C19_Witness ==
    /\ ~d3dFault
    /\ Len(signalled) >= 2
    /\ d3dCall.op = "D3D12_AcquireSwapchainTexture"
    /\ windowProperties[d3dCall.window].frameCounter = 1
    /\ d3dCall.texture = RenderTexture(d3dCall.window, 1)
    /\ \E v \in Windows : v # d3dCall.window /\ windowProperties[v].hasData
                               /\ windowProperties[v].frameCounter = 0

\* C20: the command buffer's fenceValue is 1 before the first D3D12_Submit
\* and one more after each, whatever closing the command list and
\* signalling the queue returned : the n-th submission signals the value n,
\* so the values signalled are 1, 2, 3, ... without a repeat, and
\* fenceValue is the next one
C20_FenceValueCountsSubmits ==
    /\ d3d12CommandBuffer.fenceValue = Len(signalled) + 1
    /\ \A i \in 1 .. Len(signalled) : signalled[i] = i
    /\ \A i, j \in 1 .. Len(signalled) : signalled[i] = signalled[j] => i = j

\* a submission whose close and signal both failed has used up a value,
\* after an earlier submission
C20_Witness ==
    /\ d3dCall.op = "D3D12_Submit"
    /\ ~d3dCall.closeOk
    /\ ~d3dCall.signalOk
    /\ Len(signalled) >= 2
    /\ d3d12CommandBuffer.fenceValue = Len(signalled) + 1

----------------------------------------------------------------------------
(* Properties of the uniform buffers (checked under SpecPool) *)

\* C22: right after a D3D12_Submit the command buffer tracks no uniform
\* buffer and every uniform buffer created so far is in the pool ; the pool
\* never holds more than MAX_UNIFORM_BUFFER_POOL_SIZE buffers
C22_LeasesReturnedAtSubmit ==
    /\ d3dCall.op = "D3D12_Submit" =>
          /\ Len(uniformBuffers.used) = 0
          /\ \A b \in 1 .. uniformBuffersMade :
                 \E i \in 1 .. Len(uniformBufferPool) : uniformBufferPool[i] = b
    /\ Len(uniformBufferPool) <= MAX_UNIFORM_BUFFER_POOL_SIZE

----------------------------------------------------------------------------
(* Properties of D3D12_Submit against the GPU (SpecFence, SpecFenceFair) *)

\* C21: a D3D12_Submit call that has been entered eventually returns, the
\* GPU eventually finishing everything that is on its queue, also when the
\* Signal of the submission failed
C21_SubmitReturns == (submitPc # "idle") ~> (submitPc = "idle")

\* C24: D3D12_Submit is about to reset the command allocator and the
\* command list only when the fence has reached the value signalled for the
\* submission and the GPU has finished executing what was submitted ; no
\* reset has happened while a submitted list was still on the queue
C24_ResetAfterFence ==
    /\ submitPc = "reset" =>
          /\ completedValue >= fenceToWaitFor
          /\ \A i \in 1 .. Len(gpuQueue) : gpuQueue[i].kind # "execute"
    /\ ~submitLog.resetWhileExecuting

\* a second submission is about to reset after having waited for the GPU
C24_Witness ==
    /\ submitPc = "reset"
    /\ submitLog.waited
    /\ submitLog.calls >= 2
    /\ completedValue = fenceToWaitFor

----------------------------------------------------------------------------
(* Properties of the D3D12 render pass (checked under SpecPass, SpecBegin) *)

IsBarrier(command) == command.cmd = "ResourceBarrier"

IsClear(command) == command.cmd = "ClearRenderTargetView"

PassInfos == passCall.colors \o passCall.depth

BackBufferTextures == {t \in PassTextures : TextureDesc(t).isRenderTarget}

\* C23: on a debugMode device, every transition barrier that
\* D3D12_BeginRenderPass or D3D12_EndRenderPass has recorded names as
\* StateBefore the state its texture was in at that point of the command
\* stream ; while no render pass is in progress, and right after an accepted
\* end, every back buffer is in PRESENT
C23_BackBufferStateCycle ==
    debugMode =>
        /\ LET barriers == SelectSeq(passCall.commands, IsBarrier)
           IN \A k \in 1 .. Len(barriers) :
                 barriers[k].StateBefore = passCall.actualBefore[k]
        /\ ~header.renderPass.inProgress =>
               \A t \in BackBufferTextures : textureState[t] = "PRESENT"
        /\ (passCall.op = "D3D12_EndRenderPass" /\ passCall.delegated) =>
               \A t \in BackBufferTextures : textureState[t] = "PRESENT"

\* C25: when the front end has handed D3D12_BeginRenderPass an attachment
\* whose texture is no render target, no command has been recorded and the
\* command buffer is not in a render pass
C25_NonTargetAttachmentRejected ==
    (/\ passCall.op = "D3D12_BeginRenderPass"
     /\ passCall.delegated
     /\ \E i \in 1 .. Len(PassInfos) :
           ~TextureDesc(PassInfos[i].texture).isRenderTarget)
        => /\ passCall.commands = <<>>
           /\ ~header.renderPass.inProgress

\* C26: the clears that an accepted D3D12_BeginRenderPass has recorded are
\* those of the color attachments whose loadOp is CLEAR, in order, each with
\* its attachment's clear color
C26_ClearIffLoadOpClear ==
    (/\ passCall.op = "D3D12_BeginRenderPass"
     /\ \A i \in 1 .. Len(PassInfos) :
           TextureDesc(PassInfos[i].texture).isRenderTarget)
        => LET clears == SelectSeq(passCall.commands, IsClear)
               IsCleared(info) == info.loadOp = "CLEAR"
               cleared == SelectSeq(passCall.colors, IsCleared)
           IN /\ Len(clears) = Len(cleared)
              /\ \A k \in 1 .. Len(clears) :
                    /\ clears[k].texture = cleared[k].texture
                    /\ clears[k].clearColor = cleared[k].clearColor

\* the least member of a non-empty set of numbers
Least(S) == CHOOSE m \in S : \A n \in S : m <= n

\* C27: an accepted D3D12_BeginRenderPass with one attachment or more ends
\* its commands with a viewport at (0,0) of the least width >> mipLevel and
\* the least height >> mipLevel over the color and depth-stencil
\* attachments, with depths 0 and 1, and a scissor rectangle from (0,0) of
\* the same extent
C27_DefaultViewportIsSmallestAttachment ==
    (/\ passCall.op = "D3D12_BeginRenderPass"
     /\ Len(PassInfos) >= 1
     /\ \A i \in 1 .. Len(PassInfos) :
           TextureDesc(PassInfos[i].texture).isRenderTarget)
        => LET n == Len(passCall.commands)
               width == Least({ShiftRight(TextureDesc(PassInfos[i].texture).Width,
                                          PassInfos[i].mipLevel) :
                               i \in 1 .. Len(PassInfos)})
               height == Least({ShiftRight(TextureDesc(PassInfos[i].texture).Height,
                                           PassInfos[i].mipLevel) :
                                i \in 1 .. Len(PassInfos)})
           IN /\ n >= 2
              /\ passCall.commands[n - 1] =
                    [cmd |-> "RSSetViewports", TopLeftX |-> 0, TopLeftY |-> 0,
                     Width |-> width, Height |-> height,
                     MinDepth |-> 0, MaxDepth |-> 1]
              /\ passCall.commands[n] =
                    [cmd |-> "RSSetScissorRects", left |-> 0, top |-> 0,
                     right |-> width, bottom |-> height]

\* a pass whose least width comes from the depth-stencil attachment at mip
\* level 1 and whose least height comes from a color attachment
C27_Witness ==
    /\ passCall.op = "D3D12_BeginRenderPass"
    /\ Len(passCall.colors) = 2
    /\ passCall.colors[1].texture = <<2, 0>>
    /\ passCall.colors[1].mipLevel = 0
    /\ passCall.colors[2].texture = <<2, 0>>
    /\ passCall.depth = <<[texture |-> <<1, 0>>, mipLevel |-> 1]>>
    /\ Len(passCall.commands) = 8
    /\ passCall.commands[7].Width = 320
    /\ passCall.commands[7].Height = 480 \div (2 ^ passCall.colors[2].mipLevel)

----------------------------------------------------------------------------
(* Properties of graphics pipelines (checked under SpecPipeline) *)

\* the descriptor tables of a root signature made for the given counts per
\* category, categories in the order CBV, UAV (storage buffers), UAV
\* (storage textures), SAMPLER, empty categories left out
RECURSIVE TablesFor(_, _)
TablesFor(categories, i) ==
    IF i > Len(categories) THEN <<>>
    ELSE IF categories[i][2] = 0 THEN TablesFor(categories, i + 1)
         ELSE <<DescriptorTable(categories[i][1], categories[i][2])>>
              \o TablesFor(categories, i + 1)

Larger(a, b) == IF a >= b THEN a ELSE b

\* C28: a created graphics pipeline carries the per-stage sampler, uniform
\* buffer, storage buffer and storage texture counts of its vertex and
\* fragment shaders, and its root signature has exactly one descriptor table
\* per category whose element-wise maximum over the two stages is non-zero,
\* in the order CBV, UAV (storage buffers), UAV (storage textures), SAMPLER ;
\* so it has at most 4 parameters, never more than
\* MAX_ROOT_SIGNATURE_PARAMETERS.
C28_PipelineCountsAndRootSignature ==
    graphicsPipeline.created =>
        LET V == pipelineCall.vertexShader
            F == pipelineCall.fragmentShader
            parameters == graphicsPipeline.rootSignature.parameters
        IN /\ graphicsPipeline.vertexSamplerCount = V.samplerCount
           /\ graphicsPipeline.vertexUniformBufferCount = V.uniformBufferCount
           /\ graphicsPipeline.vertexStorageBufferCount = V.storageBufferCount
           /\ graphicsPipeline.vertexStorageTextureCount = V.storageTextureCount
           /\ graphicsPipeline.fragmentSamplerCount = F.samplerCount
           /\ graphicsPipeline.fragmentUniformBufferCount = F.uniformBufferCount
           /\ graphicsPipeline.fragmentStorageBufferCount = F.storageBufferCount
           /\ graphicsPipeline.fragmentStorageTextureCount = F.storageTextureCount
           /\ graphicsPipeline.rootSignature.valid
           /\ parameters =
                TablesFor(<<
                    <<"CBV", Larger(V.uniformBufferCount, F.uniformBufferCount)>>,
                    <<"UAV", Larger(V.storageBufferCount, F.storageBufferCount)>>,
                    <<"UAV", Larger(V.storageTextureCount, F.storageTextureCount)>>,
                    <<"SAMPLER", Larger(V.samplerCount, F.samplerCount)>> >>, 1)
           /\ Len(parameters) <= 4
           /\ Len(parameters) <= MAX_ROOT_SIGNATURE_PARAMETERS

\* a pipeline whose stages differ in every category, each category used by
\* one stage only: all four tables are there
C28_Witness ==
    /\ graphicsPipeline.created
    /\ Len(graphicsPipeline.rootSignature.parameters) = 4
    /\ graphicsPipeline.vertexUniformBufferCount > 0
    /\ graphicsPipeline.fragmentUniformBufferCount = 0
    /\ graphicsPipeline.vertexSamplerCount = 0
    /\ graphicsPipeline.fragmentSamplerCount > 0
    /\ graphicsPipeline.vertexStorageBufferCount = 0
    /\ graphicsPipeline.fragmentStorageBufferCount > 0
    /\ graphicsPipeline.vertexStorageTextureCount > 0
    /\ graphicsPipeline.fragmentStorageTextureCount = 0

\* what a root call needs of the parameter it addresses
RootCallFits(call, parameter) ==
    IF call.call = "SetGraphicsRootDescriptorTable"
    THEN /\ parameter.parameterType = "DESCRIPTOR_TABLE"
         /\ parameter.rangeType = call.kind
    ELSE parameter.parameterType = "CBV"

\* C29: every root-parameter index that D3D12_BindGraphicsPipeline and the
\* draw-time flush pass to SetGraphicsRootDescriptorTable or
\* SetGraphicsRootConstantBufferView is below the parameter count of the
\* bound pipeline's root signature and addresses a parameter of the
\* matching kind.
\* Violated: the indices are computed from the per-stage counts, not from
\* the layout of the root signature.
C29_RootIndicesValid ==
    LET parameters == rootBinding.currentGraphicsPipeline.rootSignature.parameters
    IN \A k \in 1 .. Len(rootBinding.calls) :
          LET call == rootBinding.calls[k]
          IN /\ call.index < Len(parameters)
             /\ RootCallFits(call, parameters[call.index + 1])

----------------------------------------------------------------------------
(* Properties of the GPU renderer (checked under SpecQueue) *)

\* commands a and b may share a draw: the same kind, DRAW_POINTS or
\* GEOMETRY, the same texture and the same blend mode
SameBatch(a, b) ==
    /\ a.command \in {"DRAW_POINTS", "GEOMETRY"}
    /\ a.command = b.command
    /\ a.texture = b.texture
    /\ a.blend = b.blend

\* the maximal runs of list-adjacent commands that may share a draw, each
\* as the pair of its first and last position
MaximalRuns(cmd) ==
    {r \in (1 .. Len(cmd)) \X (1 .. Len(cmd)) :
        /\ r[1] <= r[2]
        /\ \A i \in r[1] .. r[2] : SameBatch(cmd[r[1]], cmd[i])
        /\ r[1] = 1 \/ ~SameBatch(cmd[r[1]], cmd[r[1] - 1])
        /\ r[2] = Len(cmd) \/ ~SameBatch(cmd[r[1]], cmd[r[2] + 1])}

RECURSIVE SumOfCounts(_, _, _)
SumOfCounts(cmd, from, to) ==
    IF from > to THEN 0 ELSE cmd[from].count + SumOfCounts(cmd, from + 1, to)

\* the positions in the call list of the draws emitted
DrawsEmitted ==
    {k \in 1 .. Len(renderRun.draws) :
        renderRun.draws[k].call = "SDL_GpuDrawPrimitives"}

\* C30: when GPU_RunCommandQueue has run a command list, each maximal run of
\* list-adjacent DRAW_POINTS or GEOMETRY commands with the same kind, texture
\* and blend mode is emitted as exactly one draw, whose vertex count is the
\* sum of the run's counts and whose vertex-buffer offset is the first
\* command's draw.first ; and every queued draw command belongs to exactly
\* one emitted draw.
C30_DrawsAreMaximalRuns ==
    (renderRun.ran /\ renderRun.ret = 0) =>
        LET cmd == renderQueue.cmd
            draws == renderRun.draws
        IN /\ \A r \in MaximalRuns(cmd) :
                /\ Cardinality({k \in DrawsEmitted :
                                   /\ draws[k].from = r[1]
                                   /\ draws[k].to = r[2]}) = 1
                /\ \A k \in DrawsEmitted :
                      draws[k].from = r[1] =>
                          /\ draws[k].vertexCount = SumOfCounts(cmd, r[1], r[2])
                          /\ draws[k].offset = cmd[r[1]].first
                          /\ draws[k].texture = cmd[r[1]].texture
                          /\ draws[k].blend = cmd[r[1]].blend
                          /\ draws[k].prim =
                                 (IF cmd[r[1]].command = "DRAW_POINTS"
                                  THEN "POINTLIST" ELSE "TRIANGLELIST")
           /\ \A k \in DrawsEmitted :
                 draws[k].prim \in {"POINTLIST", "TRIANGLELIST"} =>
                     <<draws[k].from, draws[k].to>> \in MaximalRuns(cmd)
           /\ \A i \in 1 .. Len(cmd) :
                 IsDrawCommand(cmd[i]) =>
                     Cardinality({k \in DrawsEmitted :
                                     /\ draws[k].from <= i
                                     /\ i <= draws[k].to}) = 1

\* three one-vertex points with no texture and blend NONE have become one
\* draw of three vertices
C30_Witness ==
    /\ renderRun.ran
    /\ renderRun.ret = 0
    /\ Len(renderQueue.cmd) = MaxCommands
    /\ \A i \in 1 .. Len(renderQueue.cmd) :
          /\ renderQueue.cmd[i].command = "DRAW_POINTS"
          /\ renderQueue.cmd[i].count = 1
          /\ renderQueue.cmd[i].texture = NULL
          /\ renderQueue.cmd[i].blend = "NONE"
    /\ Cardinality(DrawsEmitted) = 1
    /\ \A k \in DrawsEmitted : renderRun.draws[k].vertexCount = MaxCommands

\* commands a and b are two-vertex line segments of one blend mode
SameSegments(a, b) ==
    /\ a.command = "DRAW_LINES"
    /\ b.command = "DRAW_LINES"
    /\ a.count = 2
    /\ b.count = 2
    /\ a.blend = b.blend

\* the maximal runs of list-adjacent two-vertex segments of one blend mode
SegmentRuns(cmd) ==
    {r \in (1 .. Len(cmd)) \X (1 .. Len(cmd)) :
        /\ r[1] <= r[2]
        /\ \A i \in r[1] .. r[2] : SameSegments(cmd[r[1]], cmd[i])
        /\ r[1] = 1 \/ ~SameSegments(cmd[r[1]], cmd[r[1] - 1])
        /\ r[2] = Len(cmd) \/ ~SameSegments(cmd[r[1]], cmd[r[2] + 1])}

\* the draws that stand for the commands from .. to
DrawsOf(from, to) ==
    {k \in DrawsEmitted :
        renderRun.draws[k].from = from /\ renderRun.draws[k].to = to}

\* C31: a DRAW_LINES command with more than 2 vertices is emitted alone, as
\* one LINESTRIP draw with its own count, and is in no other draw ; a
\* maximal run of adjacent two-vertex DRAW_LINES commands of one blend mode
\* is emitted as one LINELIST draw with the sum of the run's counts ; and
\* the walk over the list ends having covered every command once.
C31_OnlySegmentsCoalesce ==
    (renderRun.ran /\ renderRun.ret = 0) =>
        LET cmd == renderQueue.cmd
            draws == renderRun.draws
        IN /\ \A i \in 1 .. Len(cmd) :
                (cmd[i].command = "DRAW_LINES" /\ cmd[i].count > 2) =>
                    /\ Cardinality(DrawsOf(i, i)) = 1
                    /\ \A k \in DrawsEmitted :
                          (draws[k].from <= i /\ i <= draws[k].to) =>
                              /\ draws[k].from = i
                              /\ draws[k].to = i
                              /\ draws[k].prim = "LINESTRIP"
                              /\ draws[k].vertexCount = cmd[i].count
                              /\ draws[k].offset = cmd[i].first
           /\ \A r \in SegmentRuns(cmd) :
                /\ Cardinality(DrawsOf(r[1], r[2])) = 1
                /\ \A k \in DrawsOf(r[1], r[2]) :
                      /\ draws[k].prim = "LINELIST"
                      /\ draws[k].vertexCount = SumOfCounts(cmd, r[1], r[2])
                      /\ draws[k].offset = cmd[r[1]].first
                      /\ draws[k].blend = cmd[r[1]].blend
           /\ \A k \in DrawsEmitted :
                 draws[k].prim = "LINELIST" =>
                     <<draws[k].from, draws[k].to>> \in SegmentRuns(cmd)
           /\ \A k, l \in DrawsEmitted :
                 k < l => draws[k].to < draws[l].from

\* a joined line between two segments of its blend mode: three draws
C31_Witness ==
    /\ renderRun.ran
    /\ renderRun.ret = 0
    /\ Len(renderQueue.cmd) = 3
    /\ \A i \in 1 .. 3 : /\ renderQueue.cmd[i].command = "DRAW_LINES"
                         /\ renderQueue.cmd[i].blend = "BLEND"
    /\ renderQueue.cmd[1].count = 2
    /\ renderQueue.cmd[2].count = 3
    /\ renderQueue.cmd[3].count = 2
    /\ Cardinality(DrawsEmitted) = 3

\* the positions in the call list of the passes begun and ended
PassesBegun ==
    {k \in 1 .. Len(renderRun.draws) :
        renderRun.draws[k].call = "SDL_GpuBeginRenderPass"}

PassesEnded ==
    {k \in 1 .. Len(renderRun.draws) :
        renderRun.draws[k].call = "SDL_GpuEndRenderPass"}

\* the CLEAR commands before position p
ClearsBefore(cmd, p) ==
    {i \in 1 .. Len(cmd) : i < p /\ cmd[i].command = "CLEAR"}

\* a pass is active when the walk reaches position i: a draw came before
DrawBefore(cmd, i) == \E j \in 1 .. Len(cmd) : j < i /\ IsDrawCommand(cmd[j])

Greatest(S) == CHOOSE x \in S : \A y \in S : y <= x

\* C32: every CLEAR takes effect. A CLEAR met with a pass active ends that
\* pass and begins one with loadOp CLEAR and the command's color ; a CLEAR
\* met with no pass active makes the next pass begun in the run (at the next
\* draw, or after the walk) use loadOp CLEAR ; every pass begun with no
\* clear pending uses loadOp LOAD ; and every pass begun is ended before
\* GPU_RunCommandQueue returns.
C32_ClearsTakeEffect ==
    renderRun.ran =>
        LET cmd == renderQueue.cmd
            draws == renderRun.draws
        IN /\ renderRun.ret # 0 => draws = <<>>
           /\ renderRun.ret = 0 =>
                /\ \A i \in 1 .. Len(cmd) :
                      (cmd[i].command = "CLEAR" /\ DrawBefore(cmd, i)) =>
                          /\ Cardinality({k \in PassesBegun : draws[k].from = i}) = 1
                          /\ \A k \in PassesBegun :
                                draws[k].from = i =>
                                    /\ draws[k].loadOp = "CLEAR"
                                    /\ draws[k].clearColor = cmd[i].color
                                    /\ k > 1
                                    /\ (k - 1) \in PassesEnded
                /\ \A i \in 1 .. Len(cmd) :
                      (cmd[i].command = "CLEAR" /\ ~DrawBefore(cmd, i)) =>
                          /\ PassesBegun # {}
                          /\ \A k \in PassesBegun :
                                (\A l \in PassesBegun : k <= l) =>
                                    /\ i < draws[k].from
                                    /\ draws[k].loadOp = "CLEAR"
                                    /\ draws[k].clearColor =
                                         cmd[Greatest(ClearsBefore(cmd, draws[k].from))].color
                /\ \A k \in PassesBegun :
                      LET atClear == /\ draws[k].from <= Len(cmd)
                                     /\ cmd[draws[k].from].command = "CLEAR"
                          pending == /\ \A l \in PassesBegun : k <= l
                                     /\ ClearsBefore(cmd, draws[k].from) # {}
                      IN draws[k].loadOp =
                             (IF atClear \/ pending THEN "CLEAR" ELSE "LOAD")
           /\ Cardinality(PassesBegun) = Cardinality(PassesEnded)
           /\ \A k \in PassesBegun :
                 \E e \in PassesEnded :
                    /\ k < e
                    /\ \A l \in PassesBegun : ~(k < l /\ l < e)

\* a clear, a draw, and a clear of another color: two passes, both clearing
C32_Witness ==
    /\ renderRun.ran
    /\ renderRun.ret = 0
    /\ Len(renderQueue.cmd) = 3
    /\ renderQueue.cmd[1].command = "CLEAR"
    /\ IsDrawCommand(renderQueue.cmd[2])
    /\ renderQueue.cmd[3].command = "CLEAR"
    /\ renderQueue.cmd[3].color # renderQueue.cmd[1].color
    /\ Cardinality(PassesBegun) = 2
    /\ \A k \in PassesBegun : renderRun.draws[k].loadOp = "CLEAR"


----------------------------------------------------------------------------
(* The GPU 2D renderer's lifetime : creation, frames, destruction *)

\* a fence the device handed out : the frame whose submission returned it,
\* how often it was waited on and released, and by which present
Fence(frame) ==
    [frame |-> frame, waits |-> 0, releases |-> 0, releasedIn |-> 0,
     byDestroy |-> FALSE]

\* SDL_GpuWaitForFences(device, SDL_TRUE, &fence, 1) and SDL_GpuReleaseFence
WaitAndRelease(dev, fence, frame, byDestroy) ==
    [dev EXCEPT !.fences[fence] =
        [@ EXCEPT !.waits = @ + 1, !.releases = @ + 1, !.releasedIn = frame,
                  !.byDestroy = byDestroy]]

\* the device as the renderer finds it after creation
CreatedDeviceState ==
    [fences |-> <<>>, hdr |-> FreshHeader,
     transferBuffers |-> [created |-> 0, released |-> 0],
     call |-> [op |-> "GPU_CreateRenderer", ret |-> 0]]

\* a front-end call the renderer made with a handle that is not NULL and that
\* debug-mode validation turned down
DebugRejected(result, handle) ==
    IF handle # NULL /\ ~result.delegated THEN 1 ELSE 0

\* the fence a back end's SubmitAndAcquireFence returns : a new one, or NULL
\* as D3D12_SubmitAndAcquireFence does
AcquireFence(dev, submit, fenceOk, frame) ==
    IF submit.delegated /\ fenceOk
    THEN [fence |-> Len(dev.fences) + 1,
          dev |-> [dev EXCEPT !.fences = Append(@, Fence(frame)),
                              !.hdr = submit.hdr]]
    ELSE [fence |-> NULL, dev |-> [dev EXCEPT !.hdr = submit.hdr]]

\* SDL_GpuAcquireCommandBuffer as the renderer calls it : the handle it
\* stores, and the header of the command buffer it now records into
AcquireForRenderer(dev, acquireOk) ==
    IF acquireOk
    THEN [command_buffer |-> RendererCommandBuffer,
          dev |-> [dev EXCEPT !.hdr = SDL_GpuAcquireCommandBuffer(@, FALSE).hdr]]
    ELSE [command_buffer |-> NULL, dev |-> dev]

\* the texture the swapchain hands out
SwapchainTexture == 1

\* RenewSwapchain : SDL_GpuAcquireSwapchainTexture returns NULL for a NULL or
\* submitted command buffer, and when no texture is to be had (~swapchainOk)
RenewSwapchain(hdr, command_buffer, swapchainOk) ==
    IF command_buffer = NULL THEN NULL
    ELSE IF CHECK_COMMAND_BUFFER(hdr) THEN NULL
    ELSE IF swapchainOk THEN SwapchainTexture ELSE NULL

\* a GPU_RenderPresent that goes on with the command buffer it submitted
GPU_RenderPresent_KeepsCommandBuffer(data, dev, fenceOk, acquireOk, swapchainOk) ==
    LET frame == data.frame + 1
        submit == SDL_GpuSubmitAndAcquireFence(TRUE, dev.hdr, data.command_buffer)
        next == AcquireFence(dev, submit, fenceOk, frame)
        waited == IF data.present_fence # NULL
                  THEN WaitAndRelease(next.dev, data.present_fence, frame, FALSE)
                  ELSE next.dev
    IN [data |-> [data EXCEPT !.present_fence = next.fence,
                              !.swapchain_texture =
                                  RenewSwapchain(waited.hdr, data.command_buffer,
                                                 swapchainOk),
                              !.frame = frame],
        dev |-> [waited EXCEPT !.call =
                    [op |-> "GPU_RenderPresent", ret |-> 0,
                     rejected |-> DebugRejected(submit, data.command_buffer)]]]

\* GPU_RenderPresent as the code has it : the assertion on next_fence is
\* compiled out of release builds
GPU_RenderPresent(data, dev, fenceOk, acquireOk, swapchainOk) ==
    LET frame == data.frame + 1
        submit == SDL_GpuSubmitAndAcquireFence(TRUE, dev.hdr, data.command_buffer)
        next == AcquireFence(dev, submit, fenceOk, frame)
        waited == IF data.present_fence # NULL
                  THEN WaitAndRelease(next.dev, data.present_fence, frame, FALSE)
                  ELSE next.dev
        acquired == AcquireForRenderer(waited, acquireOk)
    IN [data |-> [data EXCEPT !.present_fence = next.fence,
                              !.command_buffer = acquired.command_buffer,
                              !.swapchain_texture =
                                  RenewSwapchain(acquired.dev.hdr,
                                                 acquired.command_buffer,
                                                 swapchainOk),
                              !.frame = frame],
        dev |-> [acquired.dev EXCEPT !.call =
                    [op |-> "GPU_RenderPresent", ret |-> 0,
                     rejected |-> DebugRejected(submit, data.command_buffer)]]]

\* GPU_DestroyRenderer : the fence still held is waited on and released
GPU_DestroyRenderer(data, dev) ==
    LET waited == IF data.present_fence # NULL
                  THEN WaitAndRelease(dev, data.present_fence, data.frame, TRUE)
                  ELSE dev
        submit == SDL_GpuSubmit(TRUE, waited.hdr, data.command_buffer)
        submitted == IF data.command_buffer # NULL
                     THEN [waited EXCEPT !.hdr = submit.hdr]
                     ELSE waited
    IN [data |-> [data EXCEPT !.destroyed = TRUE, !.command_buffer = NULL],
        dev |-> [submitted EXCEPT !.call =
                    [op |-> "GPU_DestroyRenderer", ret |-> 0,
                     rejected |-> DebugRejected(submit, data.command_buffer)]]]

\* where each byte of the transfer buffer comes from : the index in pixels
\* of the byte copied to each index of the buffer
CopiedPixels(w, h, row_size, pitch) ==
    IF pitch = row_size
    THEN [i \in 0 .. row_size * h - 1 |-> i]
    ELSE [i \in 0 .. row_size * h - 1 |->
             (i \div row_size) * pitch + (i % row_size)]

\* GPU_UpdateTexture ; createOk : SDL_GpuCreateTransferBuffer returns a buffer
GPU_UpdateTexture(data, dev, w, h, texturebpp, pitch, createOk) ==
    LET row_size == texturebpp * w
        data_size == row_size * h
        cbuf == data.command_buffer
        begin == SDL_GpuBeginCopyPass(TRUE, dev.hdr, cbuf)
        cpass == IF begin.delegated THEN 1 ELSE NULL
        upload == SDL_GpuUploadToTexture(TRUE, begin.hdr, cpass, FALSE, FALSE)
        end == SDL_GpuEndCopyPass(TRUE, upload.hdr, cpass)
    IN IF ~createOk
       THEN [data |-> data,
             dev |-> [dev EXCEPT !.call =
                        [op |-> "GPU_UpdateTexture", ret |-> -1, rejected |-> 0,
                         rect |-> <<w, h>>, texturebpp |-> texturebpp,
                         pitch |-> pitch,
                         passes |-> 0, uploads |-> 0, size |-> 0, bytes |-> <<>>]]]
       ELSE [data |-> data,
             dev |-> [dev EXCEPT
                        !.hdr = end.hdr,
                        !.transferBuffers.created = @ + 1,
                        !.call =
                          [op |-> "GPU_UpdateTexture", ret |-> 0,
                           rect |-> <<w, h>>, texturebpp |-> texturebpp,
                           pitch |-> pitch,
                           rejected |-> DebugRejected(begin, cbuf)
                                        + DebugRejected(upload, cpass)
                                        + DebugRejected(end, cpass),
                           passes |-> IF begin.delegated /\ end.delegated
                                      THEN 1 ELSE 0,
                           uploads |-> IF upload.delegated THEN 1 ELSE 0,
                           size |-> data_size,
                           bytes |-> CopiedPixels(w, h, row_size, pitch)]]]


\* the renderer GPU_CreateRenderer returns : no fence yet, and the command
\* buffer SDL_GpuAcquireCommandBuffer gave it (NULL if that failed)
CreatedRenderData(command_buffer, swapchain_texture) ==
    [created |-> TRUE, destroyed |-> FALSE, present_fence |-> NULL,
     command_buffer |-> command_buffer,
     swapchain_texture |-> swapchain_texture, frame |-> 0]

\* the device is created with SDL_PROP_GPU_CREATEDEVICE_DEBUGMODE_BOOL set
InitRenderer ==
    /\ debugMode = TRUE
    /\ CbIdle
    /\ TexIdle
    /\ DevIdle
    /\ LogIdle
    /\ D3DIdle
    /\ FenceIdle
    /\ PoolIdle
    /\ PassIdle
    /\ PipeIdle
    /\ QueueIdle
    /\ \E acquireOk \in BOOLEAN, swapchainOk \in BOOLEAN :
        LET acquired == AcquireForRenderer(CreatedDeviceState, acquireOk)
        IN /\ renderData =
                CreatedRenderData(acquired.command_buffer,
                                  RenewSwapchain(acquired.dev.hdr,
                                                 acquired.command_buffer,
                                                 swapchainOk))
           /\ deviceState = acquired.dev

NotRendVars ==
    <<debugMode, cbVars, texVars, devVars, logVars, d3dVars, fenceVars,
      poolVars, passVars, pipeVars, queueVars>>

RenderPresent(fenceOk, acquireOk, swapchainOk) ==
    /\ ~renderData.destroyed
    /\ renderData.frame < MaxFrames
    /\ LET r == GPU_RenderPresent(renderData, deviceState, fenceOk, acquireOk,
                                  swapchainOk)
       IN /\ renderData' = r.data
          /\ deviceState' = r.dev
    /\ UNCHANGED NotRendVars

DestroyRenderer ==
    /\ ~renderData.destroyed
    /\ LET r == GPU_DestroyRenderer(renderData, deviceState)
       IN /\ renderData' = r.data
          /\ deviceState' = r.dev
    /\ UNCHANGED NotRendVars

\* GPU_UnlockTexture : GPU_UpdateTexture of the locked rectangle
GPU_UnlockTexture(data, dev, w, h, texturebpp, pitch, createOk) ==
    GPU_UpdateTexture(data, dev, w, h, texturebpp, pitch, createOk)

\* the renderer as it walks through the calls of one operation : the header
\* of its command buffer, the pass handles it holds, the calls debug-mode
\* validation turned down, the passes begun and ended, and whether a pass was
\* begun while another was in progress
ApiState(hdr) ==
    [hdr |-> hdr, render_pass |-> NULL, copy_pass |-> NULL, rejected |-> 0,
     begun |-> 0, ended |-> 0, nested |-> FALSE]

\* the outcome of one front-end call added to the walk
Called(acc, result, handle) ==
    [acc EXCEPT !.hdr = result.hdr,
                !.rejected = @ + DebugRejected(result, handle)]

\* one call of the renderer on the GPU API, on command buffer cb
ApiCall(acc, cb, name) ==
    CASE name = "SDL_GpuBeginCopyPass" ->
            LET r == SDL_GpuBeginCopyPass(TRUE, acc.hdr, cb)
            IN [Called(acc, r, cb) EXCEPT
                   !.copy_pass = IF r.delegated THEN 1 ELSE NULL,
                   !.begun = @ + (IF r.delegated THEN 1 ELSE 0),
                   !.nested = @ \/ (cb # NULL /\ CHECK_ANY_PASS_IN_PROGRESS(acc.hdr))]
      [] name = "SDL_GpuUploadToBuffer" ->
            Called(acc, SDL_GpuUploadToBuffer(TRUE, acc.hdr, acc.copy_pass,
                                              FALSE, FALSE), acc.copy_pass)
      [] name = "SDL_GpuEndCopyPass" ->
            LET r == SDL_GpuEndCopyPass(TRUE, acc.hdr, acc.copy_pass)
            IN [Called(acc, r, acc.copy_pass) EXCEPT
                   !.copy_pass = NULL,
                   !.ended = @ + (IF r.delegated THEN 1 ELSE 0)]
      [] name = "SDL_GpuBeginRenderPass" ->
            LET r == SDL_GpuBeginRenderPass(TRUE, acc.hdr, cb, FALSE, 1)
            IN [Called(acc, r, cb) EXCEPT
                   !.render_pass = IF r.delegated THEN 1 ELSE NULL,
                   !.begun = @ + (IF r.delegated THEN 1 ELSE 0),
                   !.nested = @ \/ (cb # NULL /\ CHECK_ANY_PASS_IN_PROGRESS(acc.hdr))]
      [] name = "SDL_GpuSetViewport" ->
            Called(acc, SDL_GpuSetViewport(TRUE, acc.hdr, acc.render_pass, FALSE),
                   acc.render_pass)
      [] name = "SDL_GpuSetScissor" ->
            Called(acc, SDL_GpuSetScissor(TRUE, acc.hdr, acc.render_pass, FALSE),
                   acc.render_pass)
      [] name = "SDL_GpuBindGraphicsPipeline" ->
            Called(acc, SDL_GpuBindGraphicsPipeline(TRUE, acc.hdr, acc.render_pass,
                                                    FALSE), acc.render_pass)
      [] name = "SDL_GpuBindFragmentSamplers" ->
            Called(acc, SDL_GpuBindFragmentSamplers(TRUE, acc.hdr, acc.render_pass,
                                                    FALSE, 1), acc.render_pass)
      [] name = "SDL_GpuBindVertexBuffers" ->
            Called(acc, SDL_GpuBindVertexBuffers(TRUE, acc.hdr, acc.render_pass,
                                                 FALSE, 1), acc.render_pass)
      [] name = "SDL_GpuPushVertexUniformData" ->
            Called(acc, SDL_GpuPushVertexUniformData(TRUE, acc.hdr, cb, FALSE), cb)
      [] name = "SDL_GpuDrawPrimitives" ->
            Called(acc, SDL_GpuDrawPrimitives(TRUE, acc.hdr, acc.render_pass),
                   acc.render_pass)
      [] name = "SDL_GpuEndRenderPass" ->
            LET r == SDL_GpuEndRenderPass(TRUE, acc.hdr, acc.render_pass)
            IN [Called(acc, r, acc.render_pass) EXCEPT
                   !.render_pass = NULL,
                   !.ended = @ + (IF r.delegated THEN 1 ELSE 0)]

RECURSIVE ApiCalls(_, _, _, _)
ApiCalls(acc, cb, names, i) ==
    IF i > Len(names) THEN acc
    ELSE ApiCalls(ApiCall(acc, cb, names[i]), cb, names, i + 1)

\* the calls RestartRenderPass, Draw and the end of GPU_RunCommandQueue make
\* for one entry of the run ; viewport : the viewport has a size ; scissor :
\* scissor_enabled
CallsOf(call, viewport, scissor) ==
    IF call.call = "SDL_GpuBeginRenderPass"
    THEN <<"SDL_GpuBeginRenderPass">>
         \o (IF viewport THEN <<"SDL_GpuSetViewport">> ELSE <<>>)
         \o (IF scissor THEN <<"SDL_GpuSetScissor">> ELSE <<>>)
    ELSE IF call.call = "SDL_GpuDrawPrimitives"
    THEN <<"SDL_GpuBindGraphicsPipeline">>
         \o (IF call.texture # NULL THEN <<"SDL_GpuBindFragmentSamplers">>
             ELSE <<>>)
         \o <<"SDL_GpuBindVertexBuffers", "SDL_GpuPushVertexUniformData",
              "SDL_GpuDrawPrimitives">>
    ELSE <<call.call>>

RECURSIVE CallsOfRun(_, _, _, _)
CallsOfRun(draws, i, viewport, scissor) ==
    IF i > Len(draws) THEN <<>>
    ELSE CallsOf(draws[i], viewport, scissor)
         \o CallsOfRun(draws, i + 1, viewport, scissor)

\* GPU_RunCommandQueue on the renderer's command buffer : UploadVertices
\* first, then the walk through the commands with the swapchain texture as
\* color target
GPU_RunCommandQueueOn(data, dev, cmd, viewport, scissor) ==
    LET cb == data.command_buffer
        start == ApiState(dev.hdr)
        begun == IF Vertsize(cmd) = 0 THEN start
                 ELSE ApiCall(start, cb, "SDL_GpuBeginCopyPass")
        uploaded == IF begun.copy_pass = NULL THEN begun
                    ELSE ApiCalls(begun, cb,
                             <<"SDL_GpuUploadToBuffer", "SDL_GpuEndCopyPass">>, 1)
        run == GPU_RunCommandQueue(cmd, begun.copy_pass # NULL,
                                   data.swapchain_texture)
        done == ApiCalls(uploaded, cb,
                         CallsOfRun(run.draws, 1, viewport, scissor), 1)
    IN [data |-> data,
        dev |-> [dev EXCEPT !.hdr = done.hdr,
                            !.call = [op |-> "GPU_RunCommandQueue",
                                      ret |-> run.ret,
                                      rejected |-> done.rejected,
                                      begun |-> done.begun,
                                      ended |-> done.ended,
                                      nested |-> done.nested,
                                      draws |-> Len(run.draws)]]]

\* the rectangles updated are 1 .. MaxRect pixels wide and high
RectSides == 1 .. MaxRect

\* SDL_BYTESPERPIXEL of the texture formats drawn as inputs
BytesPerPixel == {1, 4}

\* the application's pitch : rows packed, or padding after each row
Pitches(row_size) == {row_size, row_size + 1}

UpdateTexture(w, h, texturebpp, pitch, createOk) ==
    /\ ~renderData.destroyed
    /\ deviceState.transferBuffers.created < MaxUpdates
    /\ LET r == GPU_UpdateTexture(renderData, deviceState, w, h, texturebpp,
                                  pitch, createOk)
       IN /\ renderData' = r.data
          /\ deviceState' = r.dev
    /\ UNCHANGED NotRendVars

UnlockTexture(w, h, texturebpp, pitch, createOk) ==
    /\ ~renderData.destroyed
    /\ deviceState.transferBuffers.created < MaxUpdates
    /\ LET r == GPU_UnlockTexture(renderData, deviceState, w, h, texturebpp,
                                  pitch, createOk)
       IN /\ renderData' = r.data
          /\ deviceState' = [r.dev EXCEPT !.call.op = "GPU_UnlockTexture"]
    /\ UNCHANGED NotRendVars

\* the commands of a frame of the renderer's lifetime
FrameCommands ==
    {RenderCommand("DRAW_POINTS", NULL, "NONE", 1),
     RenderCommand("GEOMETRY", 1, "BLEND", 3),
     [RenderCommand("CLEAR", NULL, "NONE", 0) EXCEPT !.color = 1]}

RunFrameQueue(cmds, viewport, scissor) ==
    /\ ~renderData.destroyed
    /\ LET r == GPU_RunCommandQueueOn(renderData, deviceState,
                                      QueueCommands(cmds), viewport, scissor)
       IN /\ renderData' = r.data
          /\ deviceState' = r.dev
    /\ UNCHANGED NotRendVars

\* the operations of the renderer on its command buffer, in any order ; the
\* updates are of one pixel, packed or with a padded row
NextApi ==
    \/ \E cmds \in SeqUpTo(FrameCommands, MaxFrameCommands),
          viewport \in BOOLEAN, scissor \in BOOLEAN :
        RunFrameQueue(cmds, viewport, scissor)
    \/ \E createOk \in BOOLEAN : UpdateTexture(1, 1, 1, 1, createOk)
    \/ \E createOk \in BOOLEAN : UnlockTexture(1, 1, 1, 2, createOk)
    \/ \E fenceOk \in BOOLEAN, acquireOk \in BOOLEAN, swapchainOk \in BOOLEAN :
        RenderPresent(fenceOk, acquireOk, swapchainOk)

SpecApi == InitRenderer /\ [][NextApi]_vars

NextRenderer ==
    \/ \E fenceOk \in BOOLEAN, acquireOk \in BOOLEAN, swapchainOk \in BOOLEAN :
        RenderPresent(fenceOk, acquireOk, swapchainOk)
    \/ DestroyRenderer
    \/ \E w \in RectSides, h \in RectSides, texturebpp \in BytesPerPixel,
          createOk \in BOOLEAN :
        \E pitch \in Pitches(texturebpp * w) :
            UpdateTexture(w, h, texturebpp, pitch, createOk)

SpecRenderer == InitRenderer /\ [][NextRenderer]_vars

----------------------------------------------------------------------------
(* C33 : GPU_RenderPresent keeps one fence in flight *)

\* the fences the device handed out that have not been released
Outstanding == {f \in DOMAIN deviceState.fences : deviceState.fences[f].releases = 0}

\* C33 : with frames presented back to back, the fence returned by the
\* submission of frame N is waited on and released by the present that follows
\* it (before frame N+2 is recorded) or by GPU_DestroyRenderer, no fence is
\* waited on or released twice, a destroyed renderer leaves no fence behind,
\* and once the first frame has been presented the renderer holds exactly one
\* outstanding fence between presents.
C33_OneFenceInFlight ==
    renderData.created =>
        /\ \A f \in DOMAIN deviceState.fences :
            LET fence == deviceState.fences[f]
            IN /\ fence.waits = fence.releases
               /\ fence.releases <= 1
               /\ fence.releases = 1 =>
                    \/ fence.byDestroy
                    \/ fence.releasedIn = fence.frame + 1
        /\ renderData.destroyed => Outstanding = {}
        /\ (renderData.frame >= 1 /\ ~renderData.destroyed) =>
            /\ renderData.present_fence # NULL
            /\ Outstanding = {renderData.present_fence}

\* the same when every submission returned a fence
C33_RotationWhenFencesReturned ==
    (renderData.created /\ ~renderData.destroyed
        /\ Len(deviceState.fences) = renderData.frame /\ renderData.frame >= 1) =>
        /\ renderData.present_fence = renderData.frame
        /\ Outstanding = {renderData.present_fence}


----------------------------------------------------------------------------
(* C34 : the vertex data of a frame and the vertex buffer *)

\* point counts that fill the vertex buffer, or all but one vertex of it
LargeCounts ==
    {1, VERTEX_BUFFER_SIZE \div (4 * 2) - 1, VERTEX_BUFFER_SIZE \div (4 * 2)}

\* commands whose vertices may not fit the vertex buffer
LargeCommands ==
    {RenderCommand("DRAW_POINTS", NULL, b, c) : b \in BlendModes, c \in LargeCounts}
    \cup {RenderCommand("NO_OP", NULL, "NONE", 0)}

\* the renderer is handed a queue whose vertex data is about as large as the
\* vertex buffer
InitVertices ==
    /\ debugMode = FALSE
    /\ CbIdle
    /\ TexIdle
    /\ DevIdle
    /\ LogIdle
    /\ D3DIdle
    /\ FenceIdle
    /\ PoolIdle
    /\ PassIdle
    /\ PipeIdle
    /\ RendIdle
    /\ renderRun = NoRenderRun
    /\ \E cmds \in SeqUpTo(LargeCommands, MaxCommands),
          uploadOk \in BOOLEAN, texture \in RenderTextures :
        /\ uploadOk \/ texture # NULL
        /\ renderQueue = [cmd |-> QueueCommands(cmds), uploadOk |-> uploadOk,
                          texture |-> texture]

SpecVertices == InitVertices /\ [][RunCommandQueue]_vars

\* C34 : for every GPU_RunCommandQueue call, UploadVertices writes at most
\* VERTEX_BUFFER_SIZE bytes into the mapped transfer buffer, a successful
\* upload is of exactly vertsize bytes, and every vertex-buffer offset a draw
\* of the call binds lies in 0 .. VERTEX_BUFFER_SIZE - 1.
C34_UploadFitsVertexBuffer ==
    renderRun.ran =>
        /\ renderRun.upload.written <= VERTEX_BUFFER_SIZE
        /\ renderRun.upload.ret = 0 =>
            renderRun.upload.uploaded = Vertsize(renderQueue.cmd)
        /\ \A k \in 1 .. Len(renderRun.draws) :
            renderRun.draws[k].call = "SDL_GpuDrawPrimitives" =>
                renderRun.draws[k].offset \in 0 .. VERTEX_BUFFER_SIZE - 1

\* the same for the queues whose vertex data fits the buffer
C34_FitsWhenWithinBuffer ==
    (renderRun.ran /\ Vertsize(renderQueue.cmd) <= VERTEX_BUFFER_SIZE) =>
        /\ renderRun.upload.written <= VERTEX_BUFFER_SIZE
        /\ renderRun.upload.ret = 0 =>
            renderRun.upload.uploaded = Vertsize(renderQueue.cmd)
        /\ \A k \in 1 .. Len(renderRun.draws) :
            renderRun.draws[k].call = "SDL_GpuDrawPrimitives" =>
                renderRun.draws[k].offset \in 0 .. VERTEX_BUFFER_SIZE - 1


----------------------------------------------------------------------------
(* C35 : the transfer buffer of GPU_UpdateTexture *)

\* the transfer buffers GPU_UpdateTexture created that are not released
LiveTransferBuffers ==
    deviceState.transferBuffers.created - deviceState.transferBuffers.released

\* the last call was a GPU_UpdateTexture that returned 0
UpdatedTexture ==
    /\ renderData.created
    /\ deviceState.call.op = "GPU_UpdateTexture"
    /\ deviceState.call.ret = 0

\* the buffer of the last update has rect.w * rect.h * bpp bytes, and byte c
\* of its row r is byte r * pitch + c of the pixels
FilledRowByRow(call) ==
    LET w == call.rect[1]
        h == call.rect[2]
        row_size == w * call.texturebpp
    IN /\ call.size = w * h * call.texturebpp
       /\ DOMAIN call.bytes = 0 .. call.size - 1
       /\ \A r \in 0 .. h - 1, c \in 0 .. row_size - 1 :
            call.bytes[r * row_size + c] = r * call.pitch + c

\* C35 : each GPU_UpdateTexture call that returns 0 has allocated one transfer
\* buffer of exactly rect.w * rect.h * bpp bytes, filled it row by row from
\* the pixels, recorded exactly one copy pass, and released the buffer, so
\* that no transfer buffer of an update is live afterwards.
C35_UpdateReleasesTransferBuffer ==
    UpdatedTexture =>
        /\ FilledRowByRow(deviceState.call)
        /\ deviceState.call.passes = 1
        /\ LiveTransferBuffers = 0

\* the part of it about the buffer's size and contents
C35_UpdateFillsTransferBuffer ==
    UpdatedTexture => FilledRowByRow(deviceState.call)

\* every update that got a buffer has left it live
C35_TransferBuffersNeverReleased ==
    renderData.created => deviceState.transferBuffers.released = 0


----------------------------------------------------------------------------
(* D3D12: creating the device, and what a failure leaves behind *)

\* one step of D3D12_CreateDevice that can fail : what it acquires, and how
\* its failure is handled ; "return" : destroy the renderer, log, return NULL ;
\* "macro" : destroy the renderer, then ERROR_CHECK_RETURN ; "unchecked" : the
\* result is not looked at
CreateStep(name, acquires, onFailure) ==
    [name |-> name, acquires |-> acquires, onFailure |-> onFailure]

CreateDeviceSteps ==
    << CreateStep("SDL_LoadObject(D3DCOMPILER_DLL)", {"d3dcompiler_dll"}, "return"),
       CreateStep("SDL_LoadFunction(D3DCOMPILE_FUNC)", {}, "return"),
       CreateStep("SDL_LoadObject(DXGI_DLL)", {"dxgi_dll"}, "return"),
       CreateStep("SDL_LoadFunction(CREATE_DXGI_FACTORY1_FUNC)", {}, "return"),
       CreateStep("CreateDXGIFactory1", {"factory1"}, "macro"),
       CreateStep("IDXGIFactory1_QueryInterface", {"factory"}, "macro"),
       CreateStep("EnumAdapter", {"adapter"}, "macro"),
       CreateStep("IDXGIAdapter1_GetDesc1", {}, "macro"),
       CreateStep("SDL_LoadObject(D3D12_DLL)", {"d3d12_dll"}, "return"),
       CreateStep("SDL_LoadFunction(D3D12_CREATE_DEVICE_FUNC)", {}, "return"),
       CreateStep("SDL_LoadFunction(D3D12_SERIALIZE_ROOT_SIGNATURE_FUNC)", {}, "return"),
       CreateStep("D3D12CreateDevice", {"device"}, "macro"),
       CreateStep("ID3D12Device_CreateCommandQueue", {"commandQueue"}, "macro"),
       CreateStep("ID3D12Device_CreateCommandAllocator", {"commandAllocator"}, "macro"),
       CreateStep("ID3D12Device_CreateCommandList", {"graphicsCommandList"}, "macro"),
       CreateStep("ID3D12GraphicsCommandList2_Close", {}, "macro"),
       CreateStep("ID3D12CommandAllocator_Reset", {}, "macro"),
       CreateStep("ID3D12GraphicsCommandList2_Reset", {}, "macro"),
       CreateStep("ID3D12Device_CreateFence", {"fence"}, "unchecked"),
       CreateStep("CreateDescriptorHeap(descriptorHeap)", {"descriptorHeap"}, "macro"),
       CreateStep("CreateDescriptorHeap(vertexSampler)",
                  {"vertexSamplerDescriptorHeap"}, "macro"),
       CreateStep("CreateDescriptorHeap(fragmentSampler)",
                  {"fragmentSamplerDescriptorHeap"}, "macro"),
       CreateStep("CreateDescriptorHeap(vertexShaderResource)",
                  {"vertexShaderResourceDescriptorHeap"}, "macro"),
       CreateStep("CreateDescriptorHeap(fragmentShaderResource)",
                  {"fragmentShaderResourceDescriptorHeap"}, "macro") >>

\* what the function acquires without a test once a step has succeeded
AcquiredAfter(name, dxgiDebug) ==
    IF name = "SDL_LoadObject(DXGI_DLL)" THEN dxgiDebug
    ELSE IF name = "D3D12CreateDevice" THEN {"commandBuffer", "fenceLock"}
    ELSE IF name = "ID3D12Device_CreateFence" THEN {"fenceEvent"}
    ELSE {}

\* what it releases itself once a step has succeeded
ReleasedAfter(name) ==
    IF name = "IDXGIFactory1_QueryInterface" THEN {"factory1"} ELSE {}

\* what D3D12_INTERNAL_TryInitializeDXGIDebug may leave in the renderer
DXGIDebugOutcomes(dbg) ==
    IF dbg THEN {{}, {"dxgidebug_dll"}, {"dxgidebug_dll", "dxgiDebug"}} ELSE {{}}

\* the members D3D12_INTERNAL_DestroyCommandBuffer releases
DestroyCommandBufferReleases ==
    {"descriptorHeap", "fenceEvent", "fenceLock", "graphicsCommandList",
     "commandAllocator", "commandQueue"}

\* D3D12_INTERNAL_DestroyRendererAndFree : what of the things held it releases
D3D12_INTERNAL_DestroyRendererAndFree(held) ==
    LET ofCommandBuffer == IF "commandBuffer" \in held
                           THEN DestroyCommandBufferReleases \cup {"commandBuffer"}
                           ELSE {}
    IN held \cap (ofCommandBuffer
                  \cup {"device", "adapter", "factory", "dxgiDebug", "d3d12_dll",
                        "dxgi_dll", "d3dcompiler_dll", "dxgidebug_dll", "renderer"})

\* D3D12_CreateDevice with step failAt failing (0 : none does) : what it
\* returns, what is still held, what it released, whether the failure was
\* noticed, and whether renderer was used after it was destroyed and freed
RECURSIVE CreateDeviceFrom(_, _, _, _)
CreateDeviceFrom(i, failAt, dxgiDebug, held) ==
    IF i > Len(CreateDeviceSteps)
    THEN [ret |-> "device", held |-> held \cup {"result"}, released |-> {},
          noticed |-> FALSE, usedAfterFree |-> FALSE]
    ELSE LET step == CreateDeviceSteps[i]
         IN IF i # failAt
            THEN CreateDeviceFrom(i + 1, failAt, dxgiDebug,
                    ((held \cup step.acquires) \ ReleasedAfter(step.name))
                        \cup AcquiredAfter(step.name, dxgiDebug))
            ELSE IF step.onFailure = "unchecked"
            THEN CreateDeviceFrom(i + 1, failAt, dxgiDebug,
                    held \cup AcquiredAfter(step.name, dxgiDebug))
            ELSE LET released == D3D12_INTERNAL_DestroyRendererAndFree(held)
                 IN [ret |-> "NULL", held |-> held \ released,
                     released |-> released, noticed |-> TRUE,
                     usedAfterFree |-> step.onFailure = "macro"]

D3D12_CreateDevice(dbg, failAt, dxgiDebug) ==
    CreateDeviceFrom(1, failAt, dxgiDebug, {"renderer"})

\* the call is about to be made : which step will fail, if any
InitCreateDevice ==
    /\ CbIdle
    /\ TexIdle
    /\ DevIdle
    /\ LogIdle
    /\ ExtIdle
    /\ windowProperties = [w \in Windows |-> ZeroWindowData]
    /\ d3d12CommandBuffer = NewD3D12CommandBuffer
    /\ signalled = <<>>
    /\ acquiredWindows = {}
    /\ d3dFault = FALSE
    /\ debugMode \in BOOLEAN
    /\ \E failAt \in 0 .. Len(CreateDeviceSteps),
          dxgiDebug \in DXGIDebugOutcomes(debugMode) :
        d3dCall = [op |-> "input", failAt |-> failAt, dxgiDebug |-> dxgiDebug]

\* ERROR_CHECK_RETURN reads renderer->device after
\* D3D12_INTERNAL_DestroyRendererAndFree has set renderer to NULL : the call
\* may crash there, or go on to return NULL
CreateD3D12Device ==
    /\ d3dCall.op = "input"
    /\ LET r == D3D12_CreateDevice(debugMode, d3dCall.failAt, d3dCall.dxgiDebug)
       IN /\ d3dFault' = r.usedAfterFree
          /\ \E ret \in (IF r.usedAfterFree THEN {"crash", r.ret} ELSE {r.ret}) :
                d3dCall' = [op |-> "D3D12_CreateDevice", failAt |-> d3dCall.failAt,
                            dxgiDebug |-> d3dCall.dxgiDebug, ret |-> ret,
                            held |-> r.held, released |-> r.released,
                            noticed |-> r.noticed]
    /\ UNCHANGED <<windowProperties, d3d12CommandBuffer, signalled,
                   acquiredWindows>>
    /\ UNCHANGED NotD3DVars

SpecCreateDevice == InitCreateDevice /\ [][CreateD3D12Device]_vars

----------------------------------------------------------------------------
(* C36 : a failed D3D12_CreateDevice leaves nothing behind *)

\* D3D12_CreateDevice has been called with a step that fails
CreateDeviceFailed ==
    /\ d3dCall.op = "D3D12_CreateDevice"
    /\ d3dCall.failAt # 0

\* C36 : every failure path of D3D12_CreateDevice returns NULL with no partial
\* state : nothing it acquired is still held, the renderer is not used after
\* it has been destroyed and freed, and a failure to create the fence is
\* noticed like any other.
C36_FailedCreateLeavesNothing ==
    CreateDeviceFailed =>
        /\ d3dCall.ret = "NULL"
        /\ d3dCall.noticed
        /\ d3dCall.held = {}
        /\ ~d3dFault

\* the failures before the DXGI factory is created are handled as stated
C36_LibraryFailuresLeaveNothing ==
    (CreateDeviceFailed /\ d3dCall.failAt <= 4) =>
        /\ d3dCall.ret = "NULL"
        /\ d3dCall.held = {}
        /\ ~d3dFault


----------------------------------------------------------------------------
(* The 2D renderer's shaders : GPU_InitShaders and GPU_ReleaseShaders *)

\* the entries of vert_shader_sources and of frag_shader_sources
NUM_VERT_SHADERS == 3
NUM_FRAG_SHADERS == 2

\* a GPU_Shaders as SDL_calloc leaves it
ZeroShaders ==
    [vert_shaders |-> [i \in 1 .. NUM_VERT_SHADERS |-> NULL],
     frag_shaders |-> [i \in 1 .. NUM_FRAG_SHADERS |-> NULL]]

\* the shaders a GPU_Shaders holds
HeldShaders(shaders) ==
    ({shaders.vert_shaders[i] : i \in 1 .. NUM_VERT_SHADERS}
        \cup {shaders.frag_shaders[i] : i \in 1 .. NUM_FRAG_SHADERS}) \ {NULL}

\* SDL_GpuReleaseShader on every shader of the set ; releases[id] counts the
\* releases of shader id
ReleaseAll(releases, ids) ==
    [id \in DOMAIN releases |->
        IF id \in ids THEN releases[id] + 1 ELSE releases[id]]

\* a variant that leaves the slots as they are
GPU_ReleaseShaders_KeepsSlots(shaders, releases) ==
    [shaders |-> shaders,
     releases |-> ReleaseAll(releases, HeldShaders(shaders))]

\* GPU_ReleaseShaders : SDL_GpuReleaseShader ignores a NULL shader
GPU_ReleaseShaders(shaders, releases) ==
    [shaders |-> ZeroShaders,
     releases |-> ReleaseAll(releases, HeldShaders(shaders))]

\* GPU_InitShaders ; failAt : the CompileShader call that returns NULL, counted
\* over the vertex shaders and then the fragment shaders (0 : none)
GPU_InitShaders(shaders, releases, failAt) ==
    LET made == IF failAt = 0 THEN NUM_VERT_SHADERS + NUM_FRAG_SHADERS
                ELSE failAt - 1
        first == Len(releases)
        slot(k, old) == IF k <= made THEN first + k
                        ELSE IF k = failAt THEN NULL ELSE old
        filled == [vert_shaders |->
                      [i \in 1 .. NUM_VERT_SHADERS |-> slot(i, shaders.vert_shaders[i])],
                   frag_shaders |->
                      [i \in 1 .. NUM_FRAG_SHADERS |->
                          slot(NUM_VERT_SHADERS + i, shaders.frag_shaders[i])]]
        created == releases \o [k \in 1 .. made |-> 0]
    IN IF failAt = 0
       THEN [ret |-> 0, shaders |-> filled, releases |-> created,
             made |-> first + 1 .. first + made]
       ELSE LET released == GPU_ReleaseShaders(filled, created)
            IN [ret |-> -1, shaders |-> released.shaders,
                releases |-> released.releases,
                made |-> first + 1 .. first + made]

\* a renderer that has just been allocated : no shader, no call yet
InitShaderState ==
    /\ debugMode = TRUE
    /\ CbIdle
    /\ TexIdle
    /\ DevIdle
    /\ LogIdle
    /\ D3DIdle
    /\ FenceIdle
    /\ PoolIdle
    /\ PassIdle
    /\ PipeIdle
    /\ QueueIdle
    /\ renderData = [shaders |-> ZeroShaders, inits |-> 0]
    /\ deviceState = [releases |-> <<>>, call |-> [op |-> "none"]]

\* GPU_CreateRenderer calls it on the zeroed GPU_Shaders of a new renderer
InitShaders(failAt) ==
    /\ HeldShaders(renderData.shaders) = {}
    /\ renderData.inits < MaxInits
    /\ LET r == GPU_InitShaders(renderData.shaders, deviceState.releases, failAt)
       IN /\ renderData' = [shaders |-> r.shaders, inits |-> renderData.inits + 1]
          /\ deviceState' = [releases |-> r.releases,
                             call |-> [op |-> "GPU_InitShaders", ret |-> r.ret,
                                       made |-> r.made]]
    /\ UNCHANGED NotRendVars

\* GPU_DestroyRenderer calls it, also on the error path of GPU_CreateRenderer
ReleaseShaders ==
    /\ LET r == GPU_ReleaseShaders(renderData.shaders, deviceState.releases)
       IN /\ renderData' = [renderData EXCEPT !.shaders = r.shaders]
          /\ deviceState' = [releases |-> r.releases,
                             call |-> [op |-> "GPU_ReleaseShaders"]]
    /\ UNCHANGED NotRendVars

NextShaders ==
    \/ \E failAt \in 0 .. NUM_VERT_SHADERS + NUM_FRAG_SHADERS : InitShaders(failAt)
    \/ ReleaseShaders

SpecShaders == InitShaderState /\ [][NextShaders]_vars

----------------------------------------------------------------------------
(* C37 : shaders are created all or none, and released once *)

\* every slot of the GPU_Shaders holds a shader
AllSlotsFilled(shaders) ==
    /\ \A i \in 1 .. NUM_VERT_SHADERS : shaders.vert_shaders[i] # NULL
    /\ \A i \in 1 .. NUM_FRAG_SHADERS : shaders.frag_shaders[i] # NULL

----------------------------------------------------------------------------
(* C38 : the renderer's use of the GPU API *)

\* the last operation of the renderer was one that records into the command
\* buffer
RecordedInto ==
    deviceState.call.op \in {"GPU_UpdateTexture", "GPU_UnlockTexture",
                             "GPU_RunCommandQueue"}

\* C38 : after any sequence of GPU_CreateRenderer, GPU_UpdateTexture,
\* GPU_UnlockTexture, GPU_RunCommandQueue and GPU_RenderPresent, no call of
\* the renderer has been turned down by debug-mode validation, no pass was
\* begun while another was in progress, every pass begun by an operation was
\* ended by it, and the command buffer the renderer holds between operations
\* is unsubmitted and has no pass in progress.
C38_RendererUsesApiValidly ==
    renderData.created =>
        /\ deviceState.call.op # "GPU_CreateRenderer" =>
                deviceState.call.rejected = 0
        /\ deviceState.call.op = "GPU_RunCommandQueue" =>
                /\ ~deviceState.call.nested
                /\ deviceState.call.begun = deviceState.call.ended
        /\ deviceState.call.op \in {"GPU_UpdateTexture", "GPU_UnlockTexture"} =>
                deviceState.call.passes = deviceState.call.uploads
        /\ renderData.command_buffer # NULL =>
                /\ ~CHECK_COMMAND_BUFFER(deviceState.hdr)
                /\ ~CHECK_ANY_PASS_IN_PROGRESS(deviceState.hdr)

\* a frame with a clear between two draws : the render pass is restarted, so
\* two passes were begun after the copy pass of the vertex upload, and then
\* presented
C38_Witness ==
    /\ renderData.created
    /\ renderData.frame >= 1
    /\ renderData.command_buffer # NULL
    /\ deviceState.call.op = "GPU_RunCommandQueue"
    /\ deviceState.call.ret = 0
    /\ deviceState.call.begun >= 3
    /\ deviceState.transferBuffers.created >= 1


----------------------------------------------------------------------------
(* C39 : the sampler of a coalesced draw *)

AddressModes == {"CLAMP", "WRAP"}

\* textured and untextured triangles in both blend modes and both address
\* modes, and a clear
SampledCommands ==
    {[RenderCommand("GEOMETRY", t, b, 3) EXCEPT !.texture_address_mode = a] :
        t \in RenderTextures, b \in BlendModes, a \in AddressModes}
    \cup {[RenderCommand("CLEAR", NULL, "NONE", 0) EXCEPT !.color = 1]}

\* the renderer is handed a queue of triangles that differ in address mode
InitSampled ==
    /\ debugMode = FALSE
    /\ CbIdle
    /\ TexIdle
    /\ DevIdle
    /\ LogIdle
    /\ D3DIdle
    /\ FenceIdle
    /\ PoolIdle
    /\ PassIdle
    /\ PipeIdle
    /\ RendIdle
    /\ renderRun = NoRenderRun
    /\ \E cmds \in SeqUpTo(SampledCommands, MaxCommands),
          uploadOk \in BOOLEAN :
        renderQueue = [cmd |-> QueueCommands(cmds), uploadOk |-> uploadOk,
                       texture |-> 1]

SpecSampled == InitSampled /\ [][RunCommandQueue]_vars

\* the textured draws of the run
TexturedDraws ==
    {k \in 1 .. Len(renderRun.draws) :
        /\ renderRun.draws[k].call = "SDL_GpuDrawPrimitives"
        /\ renderRun.draws[k].texture # NULL}

\* C39 : every command that a draw of GPU_RunCommandQueue stands for is drawn
\* with the sampler of its own texture address mode and of its texture's
\* scale mode : the commands merged into one draw agree on the sampler that
\* Draw binds.
C39_MergedCommandsShareSampler ==
    renderRun.ran =>
        \A k \in TexturedDraws :
            \A i \in renderRun.draws[k].from .. renderRun.draws[k].to :
                renderRun.draws[k].sampler =
                    SamplerPointer(renderQueue.cmd[i].texture_address_mode,
                                   ScaleMode(renderQueue.cmd[i].texture))

\* what the code does keep : a draw binds the sampler of the first command it
\* stands for
C39_SamplerOfFirstCommand ==
    renderRun.ran =>
        \A k \in TexturedDraws :
            renderRun.draws[k].sampler =
                SamplerPointer(
                    renderQueue.cmd[renderRun.draws[k].from].texture_address_mode,
                    ScaleMode(renderQueue.cmd[renderRun.draws[k].from].texture))


----------------------------------------------------------------------------
(* C40 : the attachment format of the pipeline key *)

\* the textures the application renders to
TargetTextures == {2, 3}

\* the renderer GPU_CreateRenderer returns : it draws to the window, and
\* GPU_InvalidateCachedState has been called
InitTarget ==
    /\ debugMode = FALSE
    /\ CbIdle
    /\ TexIdle
    /\ DevIdle
    /\ LogIdle
    /\ D3DIdle
    /\ FenceIdle
    /\ PoolIdle
    /\ PassIdle
    /\ PipeIdle
    /\ QueueIdle
    /\ deviceState = NoDeviceState
    /\ renderData = [created |-> TRUE, target |-> NULL, render_target |-> NULL]

NotQueueRendVars ==
    <<debugMode, cbVars, texVars, devVars, logVars, d3dVars, fenceVars,
      poolVars, passVars, pipeVars>>

\* GPU_SetRenderTarget ; renderer->target is the caller's field, which holds
\* the texture the caller hands to GPU_SetRenderTarget
SetRenderTarget(texture) ==
    /\ renderData' = [renderData EXCEPT !.target = texture,
                                        !.render_target = texture]
    /\ UNCHANGED <<NotQueueRendVars, queueVars, deviceState>>

InvalidateCachedState ==
    /\ renderData' = [renderData EXCEPT !.render_target = NULL]
    /\ UNCHANGED <<NotQueueRendVars, queueVars, deviceState>>

\* GPU_RunCommandQueue : the color attachment's texture is that of
\* renderer->target, or the swapchain texture
RunQueueOnTarget(cmds) ==
    /\ LET texture == IF renderData.target # NULL THEN renderData.target
                      ELSE SwapchainTexture
           state == [FreshRenderState EXCEPT
                        !.color_attachment = texture,
                        !.render_target = renderData.render_target]
       IN /\ renderQueue' = [cmd |-> QueueCommands(cmds), uploadOk |-> TRUE,
                             texture |-> texture,
                             target |-> renderData.target,
                             render_target |-> renderData.render_target]
          /\ renderRun' = GPU_RunCommandQueueIn(state, QueueCommands(cmds), TRUE)
    /\ UNCHANGED <<NotQueueRendVars, rendVars>>

NextTarget ==
    \/ \E texture \in TargetTextures \cup {NULL} : SetRenderTarget(texture)
    \/ InvalidateCachedState
    \/ \E cmds \in SeqUpTo(FrameCommands, MaxFrameCommands) : RunQueueOnTarget(cmds)

SpecTarget == InitTarget /\ [][NextTarget]_vars

\* the format of the texture attached to a render pass
AttachedFormat(texture) ==
    IF texture = SwapchainTexture THEN SwapchainFormat ELSE TextureFormat(texture)

\* the render pass a call of the run is recorded in : the last one begun
\* before it
PassOf(k) ==
    CHOOSE j \in 1 .. k :
        /\ renderRun.draws[j].call = "SDL_GpuBeginRenderPass"
        /\ \A i \in j + 1 .. k :
            renderRun.draws[i].call # "SDL_GpuBeginRenderPass"

\* C40 : for every draw issued after any sequence of GPU_SetRenderTarget,
\* GPU_InvalidateCachedState and GPU_RunCommandQueue, the attachment format of
\* the pipeline key is the format of the texture attached as color target of
\* the render pass the draw is recorded in.
C40_KeyFormatIsAttachedFormat ==
    renderRun.ran =>
        \A k \in 1 .. Len(renderRun.draws) :
            renderRun.draws[k].call = "SDL_GpuDrawPrimitives" =>
                renderRun.draws[k].pipe[1].attachment_format =
                    AttachedFormat(renderRun.draws[PassOf(k)].attachment)

\* what the code does keep : the key has the format of the attached texture
\* when data->state.render_target is the texture rendered to as the queue
\* is run
C40_KeyFormatWhileTargetCached ==
    (renderRun.ran /\ renderQueue.render_target = renderQueue.target) =>
        \A k \in 1 .. Len(renderRun.draws) :
            renderRun.draws[k].call = "SDL_GpuDrawPrimitives" =>
                renderRun.draws[k].pipe[1].attachment_format =
                    AttachedFormat(renderRun.draws[PassOf(k)].attachment)

====
